---- MODULE Spec2Model ----
(***************************************************************************)
(* A model of the polling engine and the session context manager of the    *)
(* Witrium client (src/src/client.ts, src/src/constants.ts).               *)
(*                                                                         *)
(* Every await of the source is a suspension point and so one action: the  *)
(* code between two awaits runs without interleaving (single-threaded      *)
(* cooperative scheduling) and is part of the action that resumes it.      *)
(* The clock `now` is Date.now() in milliseconds; it advances only while   *)
(* a request or a timer is pending, and the model moves it in whole        *)
(* seconds.  The remote service is the environment: a request resolves     *)
(* with any document of the modelled universe or rejects; once it has      *)
(* accepted the cancellation of the run, the run's status is Cancelled.    *)
(***************************************************************************)
EXTENDS Integers, Sequences, FiniteSets, Bags, TLC

VARIABLES now, wait, run, cancel, call, activeSessionId, blocks, closeRequests,
          submitted, created

sessVars == <<activeSessionId, blocks, closeRequests, submitted, created>>

vars == <<now, wait, run, cancel, call, activeSessionId, blocks, closeRequests,
          submitted, created>>

(***************************************************************************)
(* Bounds of the model.                                                    *)
(***************************************************************************)
\* longest executions list of a snapshot
MaxExec == 2
\* fetches one polling call may perform before the model stops following it
MaxFetches == 3
\* largest timeout option, in seconds
MaxTimeout == 2
\* largest pollingInterval option, in seconds
MaxInterval == 1
\* largest minWaitTime option, in seconds
MaxMinWait == 1
\* longest time a request stays in flight, in seconds
MaxLatency == 1
\* longest time a timer fires late, in seconds
MaxJitter == 1

\* withBrowserSession calls followed
MaxBlocks == 2

\* k seconds in the clock's unit (milliseconds)
Ms(k) == k * 1000

Range(s) == {s[i] : i \in DOMAIN s}

(***************************************************************************)
(* Status model (constants.ts).                                            *)
(***************************************************************************)
WorkflowStatus == {"P", "R", "C", "F", "X"}
AgentStatus == {"P", "R", "C", "F", "X"}

PENDING == "P"
RUNNING == "R"
COMPLETED == "C"
FAILED == "F"
CANCELLED == "X"

\* (Cancelled left out of the terminal statuses)
TERMINAL_STATUSES_noCancelled == {"C", "F"}

\* (Running counted as terminal)
TERMINAL_STATUSES_withRunning == {"R", "C", "F", "X"}

TERMINAL_STATUSES == {"C", "F", "X"}

STATUS_NAMES ==
    [P |-> "pending", R |-> "running", C |-> "completed", F |-> "failed",
     X |-> "cancelled"]

\* STATUS_NAMES is an object literal: a property it does not own is looked
\* up in Object.prototype, whose members (functions, and the prototype
\* itself for __proto__) are truthy values that are not strings
ObjectPrototypeKeys ==
    {"constructor", "toString", "valueOf", "hasOwnProperty", "__proto__"}
ObjectPrototypeMember == "[member of Object.prototype]"

\* this.STATUS_NAMES[statusCode] || statusCode
\* (the raw code in place of the display name)
getStatusName_raw(statusCode) == statusCode

getStatusName(statusCode) ==
    IF statusCode \in DOMAIN STATUS_NAMES /\ STATUS_NAMES[statusCode] # ""
    THEN STATUS_NAMES[statusCode]
    ELSE IF statusCode \in ObjectPrototypeKeys
         THEN ObjectPrototypeMember
         ELSE statusCode

(***************************************************************************)
(* Result snapshots (WorkflowRunResult).  An execution step is modelled by *)
(* its status, the only field the client reads.  `id` is the identity of   *)
(* the response object: the ordinal of the fetch that produced it.         *)
(***************************************************************************)
\* the step statuses the modelled snapshots carry: Completed, and two that
\* are not (one non-terminal, one terminal)
ExecStatuses == {"R", "C", "F"}

ExecLists == UNION {[1..n -> ExecStatuses] : n \in 0..MaxExec}

Snapshot(id, status, hasExecutions, executions) ==
    [id |-> id, status |-> status, hasExecutions |-> hasExecutions,
     executions |-> executions]

\* the documents a fetch may resolve with
Snapshots(id) ==
    {Snapshot(id, s, TRUE, e) : s \in WorkflowStatus, e \in ExecLists}
        \cup {Snapshot(id, s, FALSE, <<>>) : s \in WorkflowStatus}

NoResult == Snapshot(0, "none", FALSE, <<>>)

(***************************************************************************)
(* Errors: every failure is a WitriumClientException; the message is the   *)
(* list of the template's pieces.                                          *)
(***************************************************************************)
NoError == <<>>

\* ${timeout / 1000} for a whole number of seconds
Seconds(ms) == ToString(ms \div 1000)

\* `Error ${what}: ${errorDetail} (Status code: ${statusCode})`; the detail
\* and the status code come from the transport and are opaque here
RequestErrorMessage(what) ==
    <<"Error ", what, ": ", "errorDetail", " (Status code: ", "statusCode", ")">>

(***************************************************************************)
(* cancelRun(runId), called for the run a polling call is polling: the     *)
(* state of the call.  at is the number of snapshots the polling call had  *)
(* fetched when the service accepted the cancellation.                     *)
(***************************************************************************)
CancelIdle == [pc |-> "idle", at |-> 0, error |-> NoError]

\* the service has accepted POST /v1/runs/{runId}/cancel
JobCancelled == cancel.pc = "returned"

\* the documents GET /v1/runs/{runId}/results may resolve with, out of S
Fetchable(S) == IF JobCancelled THEN {r \in S : r.status = "X"} ELSE S

(***************************************************************************)
(* waitUntilState(runId, targetStatus, options)                            *)
(***************************************************************************)
\* (the first step inspected instead of the last)
checkAllExecutionsCompleted_first(results) ==
    IF ~results.hasExecutions \/ Len(results.executions) = 0
    THEN FALSE
    ELSE results.executions[1] = COMPLETED

\* (no steps counted as all steps done)
checkAllExecutionsCompleted_emptyOk(results) ==
    IF ~results.hasExecutions \/ Len(results.executions) = 0
    THEN TRUE
    ELSE results.executions[Len(results.executions)] = COMPLETED

checkAllExecutionsCompleted(results) ==
    IF ~results.hasExecutions \/ Len(results.executions) = 0
    THEN FALSE
    ELSE results.executions[Len(results.executions)] = COMPLETED

statusReached(results, targetStatus) == results.status = targetStatus

allExecutionsDone(results, allInstructionsExecuted) ==
    ~allInstructionsExecuted \/ checkAllExecutionsCompleted(results)

TerminalMismatchMessage(status, targetStatus) ==
    <<"Workflow run reached terminal status '", getStatusName(status),
      "' before reaching target status '", getStatusName(targetStatus), "'">>

\* (the note on the instructions left out)
WaitTimeoutMessage_noNote(targetStatus, allInstructionsExecuted, timeout) ==
    <<"Workflow run did not reach ", "status '", getStatusName(targetStatus),
      "'", " within ", Seconds(timeout), " seconds">>

WaitTimeoutMessage(targetStatus, allInstructionsExecuted, timeout) ==
    LET targetStatusName == getStatusName(targetStatus)
        conditionMsg ==
            <<"status '", targetStatusName, "'">>
                \o (IF allInstructionsExecuted
                    THEN <<" and all instructions executed">>
                    ELSE <<>>)
    IN  <<"Workflow run did not reach ">> \o conditionMsg
            \o <<" within ", Seconds(timeout), " seconds">>

WaitOptions ==
    [targetStatus : WorkflowStatus,
     allInstructionsExecuted : BOOLEAN,
     minWaitTime : {Ms(k) : k \in 0..MaxMinWait},
     pollingInterval : {Ms(k) : k \in 0..MaxInterval},
     timeout : {Ms(k) : k \in 0..MaxTimeout}]

\* the state of one call: its options, its locals (startTime; results, in
\* scope from the fetch to the end of the iteration), its position (pc), its
\* outcome (ret or error), and a log of what it did: the status of every
\* snapshot fetched, in order, and the number of pollingInterval sleeps begun
WaitCalled(o) ==
    [pc |-> "call",
     targetStatus |-> o.targetStatus,
     allInstructionsExecuted |-> o.allInstructionsExecuted,
     minWaitTime |-> o.minWaitTime,
     pollingInterval |-> o.pollingInterval,
     timeout |-> o.timeout,
     startTime |-> 0,
     results |-> NoResult,
     ret |-> NoResult,
     error |-> NoError,
     fetched |-> <<>>,
     sleeps |-> 0]

WaitIdle == [WaitCalled(CHOOSE o \in WaitOptions : TRUE) EXCEPT !.pc = "idle"]

\* (the deadline counted from the call, at clock 0, not from startTime)
WaitLoopHead_sinceCall(w, t) ==
    IF t < w.timeout
    THEN [w EXCEPT !.pc = "fetching", !.results = NoResult]
    ELSE [w EXCEPT !.pc = "thrown", !.results = NoResult,
                   !.error = WaitTimeoutMessage(w.targetStatus,
                                 w.allInstructionsExecuted, w.timeout)]

\* (a loop with no deadline: while (true))
WaitLoopHead_noDeadline(w, t) ==
    [w EXCEPT !.pc = "fetching", !.results = NoResult]

\* (the loop entered at the deadline too: <= in place of <)
WaitLoopHead_inclusive(w, t) ==
    IF t - w.startTime <= w.timeout
    THEN [w EXCEPT !.pc = "fetching", !.results = NoResult]
    ELSE [w EXCEPT !.pc = "thrown", !.results = NoResult,
                   !.error = WaitTimeoutMessage(w.targetStatus,
                                 w.allInstructionsExecuted, w.timeout)]

\* the head of the while loop at clock t, and the throw that follows the loop
WaitLoopHead(w, t) ==
    IF t - w.startTime < w.timeout
    THEN [w EXCEPT !.pc = "fetching", !.results = NoResult]
    ELSE [w EXCEPT !.pc = "thrown", !.results = NoResult,
                   !.error = WaitTimeoutMessage(w.targetStatus,
                                 w.allInstructionsExecuted, w.timeout)]

\* (the sleep placed before the checks instead of after them)
WaitLoopBody_sleepFirst(w, results) ==
    LET logged == [w EXCEPT !.results = results,
                            !.fetched = Append(@, results.status),
                            !.sleeps = @ + 1]
    IN  IF statusReached(results, w.targetStatus)
            /\ allExecutionsDone(results, w.allInstructionsExecuted)
        THEN [logged EXCEPT !.pc = "returned", !.ret = results]
        ELSE IF results.status \in TERMINAL_STATUSES
                 /\ results.status # w.targetStatus
             THEN [logged EXCEPT !.pc = "thrown",
                       !.error = TerminalMismatchMessage(results.status,
                                                         w.targetStatus)]
             ELSE [logged EXCEPT !.pc = "sleeping"]

\* the loop body after getWorkflowResults resolved with results
WaitLoopBody(w, results) ==
    LET logged == [w EXCEPT !.results = results,
                            !.fetched = Append(@, results.status)]
    IN  IF statusReached(results, w.targetStatus)
            /\ allExecutionsDone(results, w.allInstructionsExecuted)
        THEN [logged EXCEPT !.pc = "returned", !.ret = results]
        ELSE IF results.status \in TERMINAL_STATUSES
                 /\ results.status # w.targetStatus
             THEN [logged EXCEPT !.pc = "thrown",
                       !.error = TerminalMismatchMessage(results.status,
                                                         w.targetStatus)]
             ELSE [logged EXCEPT !.pc = "sleeping", !.sleeps = @ + 1]

\* (the wait of minWaitTime left out)
WaitEnter_noMinWait ==
    /\ wait.pc = "call"
    /\ wait' = WaitLoopHead([wait EXCEPT !.startTime = now], now)
    /\ UNCHANGED <<now, run, cancel, call>>
    /\ UNCHANGED sessVars

\* entry: up to the first await
WaitEnter ==
    /\ wait.pc = "call"
    /\ wait' = IF wait.minWaitTime > 0
               THEN [wait EXCEPT !.pc = "minWait"]
               ELSE WaitLoopHead([wait EXCEPT !.startTime = now], now)
    /\ UNCHANGED <<now, run, cancel, call>>
    /\ UNCHANGED sessVars

\* (startTime recorded before the minWaitTime sleep)
WaitMinWaitElapsed_startAtCall ==
    /\ wait.pc = "minWait"
    /\ \E j \in 0..MaxJitter :
          /\ now' = now + wait.minWaitTime + Ms(j)
          /\ wait' = WaitLoopHead([wait EXCEPT !.startTime = now], now')
    /\ UNCHANGED <<run, cancel, call, sessVars>>

\* setTimeout(resolve, minWaitTime) fires
WaitMinWaitElapsed ==
    /\ wait.pc = "minWait"
    /\ \E j \in 0..MaxJitter :
          /\ now' = now + wait.minWaitTime + Ms(j)
          /\ wait' = WaitLoopHead([wait EXCEPT !.startTime = now'], now')
    /\ UNCHANGED <<run, cancel, call, sessVars>>

\* getWorkflowResults resolves
WaitFetchResolved ==
    /\ wait.pc = "fetching"
    /\ Len(wait.fetched) < MaxFetches
    /\ \E d \in 0..MaxLatency,
          results \in Fetchable(Snapshots(Len(wait.fetched) + 1)) :
          /\ now' = now + Ms(d)
          /\ wait' = WaitLoopBody(wait, results)
    /\ UNCHANGED <<run, cancel, call, sessVars>>

\* getWorkflowResults rejects
WaitFetchRejected ==
    /\ wait.pc = "fetching"
    /\ \E d \in 0..MaxLatency :
          /\ now' = now + Ms(d)
          /\ wait' = [wait EXCEPT !.pc = "thrown",
                         !.error = RequestErrorMessage("getting workflow results")]
    /\ UNCHANGED <<run, cancel, call, sessVars>>

\* (the call that times out asks the service to cancel the run)
WaitSleepElapsed_cancelsOnTimeout ==
    /\ wait.pc = "sleeping"
    /\ \E j \in 0..MaxJitter :
          /\ now' = now + wait.pollingInterval + Ms(j)
          /\ wait' = WaitLoopHead(wait, now')
    /\ cancel' = IF wait'.pc = "thrown" /\ cancel.pc = "idle"
                 THEN [cancel EXCEPT !.pc = "posting"]
                 ELSE cancel
    /\ UNCHANGED <<run, call, sessVars>>

\* setTimeout(resolve, pollingInterval) fires
WaitSleepElapsed ==
    /\ wait.pc = "sleeping"
    /\ \E j \in 0..MaxJitter :
          /\ now' = now + wait.pollingInterval + Ms(j)
          /\ wait' = WaitLoopHead(wait, now')
    /\ UNCHANGED <<run, cancel, call, sessVars>>

(***************************************************************************)
(* runWorkflowAndWait(workflowId, options)                                 *)
(***************************************************************************)
\* (the timeout reported in milliseconds)
RunTimeoutMessage_ms(timeout) ==
    <<"Workflow execution timed out after ", ToString(timeout), " seconds">>

RunTimeoutMessage(timeout) ==
    <<"Workflow execution timed out after ", Seconds(timeout), " seconds">>

\* the run ids the service may answer a submission with
RunIds == {"r1", "r2"}

\* the snapshots followed by the model of runWorkflowAndWait, which keeps
\* and hands on whole snapshots and reads nothing but their status: every
\* status, without executions or with one completed step
RunSnapshots(id) ==
    {r \in Snapshots(id) : ~r.hasExecutions \/ r.executions = <<COMPLETED>>}

\* onProgress is a callback of the caller; onProgressGiven tells whether the
\* options hold one (the default is a no-op)
RunOptions ==
    [pollingInterval : {Ms(k) : k \in 0..MaxInterval},
     timeout : {Ms(k) : k \in 0..MaxTimeout},
     returnIntermediateResults : BOOLEAN,
     onProgressGiven : BOOLEAN]

\* the state of one call: options, locals (runId, startTime, results,
\* intermediateResults), position, outcome (retKind tells whether the value
\* returned is the snapshot ret or the array retArray; error), and a log:
\* submits issued, the run ids results were requested for, status of every
\* snapshot fetched, sleeps begun, and the snapshots handed to the caller's
\* onProgress, in order
RunCalled(o) ==
    [pc |-> "call",
     pollingInterval |-> o.pollingInterval,
     timeout |-> o.timeout,
     returnIntermediateResults |-> o.returnIntermediateResults,
     onProgressGiven |-> o.onProgressGiven,
     runId |-> "none",
     startTime |-> 0,
     results |-> NoResult,
     intermediateResults |-> <<>>,
     retKind |-> "none",
     ret |-> NoResult,
     retArray |-> <<>>,
     error |-> NoError,
     submits |-> 0,
     requested |-> {},
     fetched |-> <<>>,
     sleeps |-> 0,
     progress |-> <<>>]

RunIdle == [RunCalled(CHOOSE o \in RunOptions : TRUE) EXCEPT !.pc = "idle"]

\* the head of the while loop at clock t, and the throw that follows the loop
RunLoopHead(r, t) ==
    IF t - r.startTime < r.timeout
    THEN [r EXCEPT !.pc = "fetching", !.results = NoResult,
                   !.requested = @ \cup {r.runId}]
    ELSE [r EXCEPT !.pc = "thrown", !.results = NoResult,
                   !.error = RunTimeoutMessage(r.timeout)]

\* (a Failed or Cancelled run raised as an error)
RunLoopBody_throwOnFailed(r, results) ==
    LET logged == [r EXCEPT !.results = results,
                            !.fetched = Append(@, results.status)]
    IN  IF results.status = COMPLETED
        THEN [logged EXCEPT !.pc = "returned", !.retKind = "result",
                            !.ret = results]
        ELSE IF results.status \in TERMINAL_STATUSES
             THEN [logged EXCEPT !.pc = "thrown",
                                 !.error = <<"Workflow run ",
                                             getStatusName(results.status)>>]
             ELSE [logged EXCEPT !.pc = "sleeping", !.sleeps = @ + 1]

\* (the push placed after the terminal check)
RunLoopBody_pushAfterCheck(r, results) ==
    LET called == IF r.onProgressGiven
                  THEN Append(r.progress, results)
                  ELSE r.progress
        logged == [r EXCEPT !.results = results,
                            !.fetched = Append(@, results.status),
                            !.progress = called]
    IN  IF results.status \in TERMINAL_STATUSES
        THEN IF r.returnIntermediateResults
             THEN [logged EXCEPT !.pc = "returned", !.retKind = "array",
                                 !.retArray = r.intermediateResults]
             ELSE [logged EXCEPT !.pc = "returned", !.retKind = "result",
                                 !.ret = results]
        ELSE [logged EXCEPT !.pc = "sleeping", !.sleeps = @ + 1,
                            !.intermediateResults =
                                IF r.returnIntermediateResults
                                THEN Append(@, results) ELSE @]

\* (onProgress called after the terminal check)
RunLoopBody_progressAfterCheck(r, results) ==
    LET pushed == IF r.returnIntermediateResults
                  THEN Append(r.intermediateResults, results)
                  ELSE r.intermediateResults
        logged == [r EXCEPT !.results = results,
                            !.fetched = Append(@, results.status),
                            !.intermediateResults = pushed]
    IN  IF results.status \in TERMINAL_STATUSES
        THEN IF r.returnIntermediateResults
             THEN [logged EXCEPT !.pc = "returned", !.retKind = "array",
                                 !.retArray = pushed]
             ELSE [logged EXCEPT !.pc = "returned", !.retKind = "result",
                                 !.ret = results]
        ELSE [logged EXCEPT !.pc = "sleeping", !.sleeps = @ + 1,
                            !.progress = IF r.onProgressGiven
                                         THEN Append(@, results) ELSE @]

\* the loop body after getWorkflowResults resolved with results
RunLoopBody(r, results) ==
    LET pushed == IF r.returnIntermediateResults
                  THEN Append(r.intermediateResults, results)
                  ELSE r.intermediateResults
        called == IF r.onProgressGiven
                  THEN Append(r.progress, results)
                  ELSE r.progress
        logged == [r EXCEPT !.results = results,
                            !.fetched = Append(@, results.status),
                            !.intermediateResults = pushed,
                            !.progress = called]
    IN  IF results.status \in TERMINAL_STATUSES
        THEN IF r.returnIntermediateResults
             THEN [logged EXCEPT !.pc = "returned", !.retKind = "array",
                                 !.retArray = pushed]
             ELSE [logged EXCEPT !.pc = "returned", !.retKind = "result",
                                 !.ret = results]
        ELSE [logged EXCEPT !.pc = "sleeping", !.sleeps = @ + 1]

\* entry: up to the await of runWorkflow
RunEnter ==
    /\ run.pc = "call"
    /\ run' = [run EXCEPT !.pc = "submitting", !.submits = @ + 1]
    /\ UNCHANGED <<now, wait, cancel, call>>
    /\ UNCHANGED sessVars

\* runWorkflow resolves
RunSubmitResolved ==
    /\ run.pc = "submitting"
    /\ \E d \in 0..MaxLatency, id \in RunIds :
          /\ now' = now + Ms(d)
          /\ run' = RunLoopHead([run EXCEPT !.runId = id, !.startTime = now'],
                                now')
    /\ UNCHANGED <<wait, cancel, call, sessVars>>

\* (the error of the submit caught: the call goes on to poll)
RunSubmitRejected_pollsAnyway ==
    /\ run.pc = "submitting"
    /\ \E d \in 0..MaxLatency :
          /\ now' = now + Ms(d)
          /\ run' = RunLoopHead([run EXCEPT !.startTime = now'], now')
    /\ UNCHANGED <<wait, cancel, call, sessVars>>

\* runWorkflow rejects
RunSubmitRejected ==
    /\ run.pc = "submitting"
    /\ \E d \in 0..MaxLatency :
          /\ now' = now + Ms(d)
          /\ run' = [run EXCEPT !.pc = "thrown",
                        !.error = RequestErrorMessage("running workflow")]
    /\ UNCHANGED <<wait, cancel, call, sessVars>>

\* getWorkflowResults resolves
RunFetchResolved ==
    /\ run.pc = "fetching"
    /\ Len(run.fetched) < MaxFetches
    /\ \E d \in 0..MaxLatency,
          results \in Fetchable(RunSnapshots(Len(run.fetched) + 1)) :
          /\ now' = now + Ms(d)
          /\ run' = RunLoopBody(run, results)
    /\ UNCHANGED <<wait, cancel, call, sessVars>>

\* (the fetch error caught inside the loop, which polls again after the
\* interval)
RunFetchRejected_swallowed ==
    /\ run.pc = "fetching"
    /\ \E d \in 0..MaxLatency :
          /\ now' = now + Ms(d)
          /\ run' = [run EXCEPT !.pc = "sleeping", !.sleeps = @ + 1]
    /\ UNCHANGED <<wait, cancel, call, sessVars>>

\* getWorkflowResults rejects
RunFetchRejected ==
    /\ run.pc = "fetching"
    /\ \E d \in 0..MaxLatency :
          /\ now' = now + Ms(d)
          /\ run' = [run EXCEPT !.pc = "thrown",
                        !.error = RequestErrorMessage("getting workflow results")]
    /\ UNCHANGED <<wait, cancel, call, sessVars>>

\* setTimeout(resolve, pollingInterval) fires
RunSleepElapsed ==
    /\ run.pc = "sleeping"
    /\ \E j \in 0..MaxJitter :
          /\ now' = now + run.pollingInterval + Ms(j)
          /\ run' = RunLoopHead(run, now')
    /\ UNCHANGED <<wait, cancel, call, sessVars>>

(***************************************************************************)
(* cancelRun(runId)                                                        *)
(***************************************************************************)
\* a polling call is under way for a run that exists
Polling ==
    \/ wait.pc \in {"minWait", "fetching", "sleeping"}
    \/ run.pc \in {"fetching", "sleeping"}

\* the snapshots the polling call has fetched so far
PolledFetches == Len(wait.fetched) + Len(run.fetched)

\* cancelRun is called while the run is being polled: up to the await of
\* the POST
CancelRunCall ==
    /\ cancel.pc = "idle"
    /\ Polling
    /\ cancel' = [cancel EXCEPT !.pc = "posting"]
    /\ UNCHANGED <<now, wait, run, call, sessVars>>

\* the POST resolves: the service has cancelled the run
CancelRunResolved ==
    /\ cancel.pc = "posting"
    /\ cancel' = [cancel EXCEPT !.pc = "returned", !.at = PolledFetches]
    /\ UNCHANGED <<now, wait, run, call, sessVars>>

\* the POST rejects: the run is as it was
CancelRunRejected ==
    /\ cancel.pc = "posting"
    /\ cancel' = [cancel EXCEPT !.pc = "thrown",
                      !.error = RequestErrorMessage("cancelling workflow run")]
    /\ UNCHANGED <<now, wait, run, call, sessVars>>

(***************************************************************************)
(* Calls of the synchronous helpers: call is one call, with the function   *)
(* called (fn), its argument (arg), its position (pc) and the value it     *)
(* returned (ret).                                                         *)
(***************************************************************************)
NoReturn == "none"

Called(fn, arg) == [fn |-> fn, arg |-> arg, pc |-> "call", ret |-> NoReturn]

CallIdle == [fn |-> "none", arg |-> "none", pc |-> "idle", ret |-> NoReturn]

\* the codes getStatusName is called with: the five status codes and codes
\* the service or a caller may pass that are none of them
StatusCodeInputs ==
    WorkflowStatus \cup {"", "Z", "p", "pending", "constructor", "toString"}

\* WorkflowRunStatus.getStatusName(statusCode) returns
GetStatusNameReturns ==
    /\ call.fn = "getStatusName"
    /\ call.pc = "call"
    /\ call' = [call EXCEPT !.pc = "returned", !.ret = getStatusName(call.arg)]
    /\ UNCHANGED <<now, wait, run, cancel, sessVars>>

\* an options object is a function from the names of the properties it has
\* to their values; a missing property reads as undefined
NoOptions == <<>>
Optional(field, values) == {NoOptions} \cup {field :> v : v \in values}

\* (|| in place of ??: a number given as 0 is replaced by the default too)
NullishCoalesce_or(options, field, default) ==
    IF field \notin DOMAIN options THEN default
    ELSE IF field \in {"minWaitTime", "pollingInterval", "timeout"}
            /\ options[field] = 0
         THEN default
         ELSE options[field]

\* options.field ?? default
NullishCoalesce(options, field, default) ==
    IF field \in DOMAIN options THEN options[field] ELSE default

\* the first four statements of waitUntilState
WaitUntilStateDefaults(options) ==
    [allInstructionsExecuted |->
         NullishCoalesce(options, "allInstructionsExecuted", FALSE),
     minWaitTime |-> NullishCoalesce(options, "minWaitTime", 0),
     pollingInterval |-> NullishCoalesce(options, "pollingInterval", 2000),
     timeout |-> NullishCoalesce(options, "timeout", 60000)]

\* the first statements of runWorkflowAndWait (onProgress apart)
RunWorkflowAndWaitDefaults(options) ==
    [timeout |-> NullishCoalesce(options, "timeout", 300000),
     pollingInterval |-> NullishCoalesce(options, "pollingInterval", 5000),
     returnIntermediateResults |->
         NullishCoalesce(options, "returnIntermediateResults", FALSE)]

\* the options objects the two operations are called with
WaitOptionsInputs ==
    {a @@ b @@ c @@ d :
        a \in Optional("allInstructionsExecuted", BOOLEAN),
        b \in Optional("minWaitTime", {0, 1000}),
        c \in Optional("pollingInterval", {0, 1000}),
        d \in Optional("timeout", {0, 1000})}

RunOptionsInputs ==
    {a @@ b @@ c :
        a \in Optional("timeout", {0, 1000}),
        b \in Optional("pollingInterval", {0, 1000}),
        c \in Optional("returnIntermediateResults", BOOLEAN)}

\* waitUntilState has read its options
WaitUntilStateReadsOptions ==
    /\ call.fn = "waitUntilState"
    /\ call.pc = "call"
    /\ call' = [call EXCEPT !.pc = "returned",
                            !.ret = WaitUntilStateDefaults(call.arg)]
    /\ UNCHANGED <<now, wait, run, cancel, sessVars>>

\* runWorkflowAndWait has read its options
RunWorkflowAndWaitReadsOptions ==
    /\ call.fn = "runWorkflowAndWait"
    /\ call.pc = "call"
    /\ call' = [call EXCEPT !.pc = "returned",
                            !.ret = RunWorkflowAndWaitDefaults(call.arg)]
    /\ UNCHANGED <<now, wait, run, cancel, sessVars>>

(***************************************************************************)
(* Response documents and their key-case translation.  A JSON value is a   *)
(* record: its kind, its text (of a string or a number) and its members    *)
(* in insertion order (of an object; an array's items are members with the *)
(* empty key).  A key is the sequence of its characters.                   *)
(***************************************************************************)
Member(key, value) == [key |-> key, value |-> value]

Str(s) == [kind |-> "string", text |-> s, members |-> <<>>]

Num(s) == [kind |-> "number", text |-> s, members |-> <<>>]

JsonNull == [kind |-> "null", text |-> "", members |-> <<>>]

Arr(items) ==
    [kind |-> "array", text |-> "",
     members |-> [i \in 1..Len(items) |-> Member(<<>>, items[i])]]

Obj(members) == [kind |-> "object", text |-> "", members |-> members]

Has(obj, key) == \E i \in DOMAIN obj.members : obj.members[i].key = key

Get(obj, key) ==
    obj.members[CHOOSE i \in DOMAIN obj.members : obj.members[i].key = key].value

LowerLetters ==
    <<"a", "b", "c", "d", "e", "f", "g", "h", "i", "j", "k", "l", "m",
      "n", "o", "p", "q", "r", "s", "t", "u", "v", "w", "x", "y", "z">>

UpperLetters ==
    <<"A", "B", "C", "D", "E", "F", "G", "H", "I", "J", "K", "L", "M",
      "N", "O", "P", "Q", "R", "S", "T", "U", "V", "W", "X", "Y", "Z">>

toUpperCase(letter) ==
    IF letter \in Range(LowerLetters)
    THEN UpperLetters[CHOOSE i \in DOMAIN LowerLetters : LowerLetters[i] = letter]
    ELSE letter

\* str.replace(/_([a-z])/g, (_, letter) => letter.toUpperCase())
RECURSIVE toCamelCaseFrom(_, _)
toCamelCaseFrom(str, i) ==
    IF i > Len(str) THEN <<>>
    ELSE IF str[i] = "_" /\ i < Len(str) /\ str[i + 1] \in Range(LowerLetters)
         THEN <<toUpperCase(str[i + 1])>> \o toCamelCaseFrom(str, i + 2)
         ELSE <<str[i]>> \o toCamelCaseFrom(str, i + 1)

toCamelCase(str) == toCamelCaseFrom(str, 1)

\* transformed[camelKey] = value: an existing property keeps its place and
\* takes the new value, a new one is added last
Assign(transformed, camelKey, value) ==
    IF \E i \in DOMAIN transformed : transformed[i].key = camelKey
    THEN [i \in DOMAIN transformed |->
             IF transformed[i].key = camelKey
             THEN Member(camelKey, value) ELSE transformed[i]]
    ELSE Append(transformed, Member(camelKey, value))

\* typeof obj === "object" && obj.constructor === Object, for a parsed JSON
\* value that is neither null nor an array: an object, unless it has a
\* property "constructor" of its own
IsPlainObject(obj) ==
    /\ obj.kind = "object"
    /\ ~Has(obj, <<"c", "o", "n", "s", "t", "r", "u", "c", "t", "o", "r">>)

RECURSIVE TransformKeysToCamelCase(_)
RECURSIVE TransformedMembers(_, _)

\* the for-in loop of _transformKeysToCamelCase over the first n properties
TransformedMembers(members, n) ==
    IF n = 0 THEN <<>>
    ELSE Assign(TransformedMembers(members, n - 1),
                toCamelCase(members[n].key),
                TransformKeysToCamelCase(members[n].value))

TransformKeysToCamelCase(obj) ==
    IF obj.kind \in {"null", "undefined"} THEN obj
    ELSE IF obj.kind = "array"
         THEN [obj EXCEPT !.members =
                   [i \in DOMAIN obj.members |->
                       Member(<<>>, TransformKeysToCamelCase(obj.members[i].value))]]
         ELSE IF IsPlainObject(obj)
              THEN [obj EXCEPT !.members =
                        TransformedMembers(obj.members, Len(obj.members))]
              ELSE obj

\* the keys of the documents of the service
Key_workflow_id == <<"w", "o", "r", "k", "f", "l", "o", "w", "_", "i", "d">>
Key_run_id == <<"r", "u", "n", "_", "i", "d">>
Key_status == <<"s", "t", "a", "t", "u", "s">>
Key_executions == <<"e", "x", "e", "c", "u", "t", "i", "o", "n", "s">>
Key_instruction_order ==
    <<"i", "n", "s", "t", "r", "u", "c", "t", "i", "o", "n", "_",
      "o", "r", "d", "e", "r">>
Key_result == <<"r", "e", "s", "u", "l", "t">>
Key_first_name == <<"f", "i", "r", "s", "t", "_", "n", "a", "m", "e">>
Key_firstName == <<"f", "i", "r", "s", "t", "N", "a", "m", "e">>
Key_constructor == <<"c", "o", "n", "s", "t", "r", "u", "c", "t", "o", "r">>

\* one step of a run as the service sends it
WireExecution(status, order) ==
    Obj(<<Member(Key_status, Str(status)),
          Member(Key_instruction_order, Num(ToString(order)))>>)

\* the executions property: absent, or a list of up to MaxExec steps
WireExecutions ==
    {<<>>} \cup
    {<<Member(Key_executions,
              Arr([i \in 1..Len(steps) |-> WireExecution(steps[i], i)]))>> :
        steps \in UNION {[1..n -> AgentStatus] : n \in 0..MaxExec}}

\* the result property: absent, null, or data the workflow extracted, whose
\* keys are the workflow's own
WireResultData ==
    {<<>>,
     <<Member(Key_result, JsonNull)>>,
     <<Member(Key_result, Obj(<<Member(Key_first_name, Str("Ann"))>>))>>,
     <<Member(Key_result, Arr(<<Obj(<<Member(Key_first_name, Str("Ann"))>>),
                              Str("first_name")>>))>>,
     <<Member(Key_result, Obj(<<Member(Key_firstName, Str("Bob")),
                              Member(Key_first_name, Str("Ann"))>>))>>,
     <<Member(Key_result, Obj(<<Member(Key_constructor, Str("x")),
                              Member(Key_first_name, Str("Ann"))>>))>>}

\* response.data of GET /v1/runs/{runId}/results
WireResults ==
    {Obj(<<Member(Key_workflow_id, Str("w1")), Member(Key_run_id, Str("r1")),
           Member(Key_status, Str(status))>> \o executions \o result) :
        status \in WorkflowStatus, executions \in WireExecutions,
        result \in WireResultData}

\* getWorkflowResults translates the keys of the document received
GetWorkflowResultsTransforms ==
    /\ call.fn = "getWorkflowResults"
    /\ call.pc = "call"
    /\ call' = [call EXCEPT !.pc = "returned",
                            !.ret = TransformKeysToCamelCase(call.arg)]
    /\ UNCHANGED <<now, wait, run, cancel, sessVars>>

(***************************************************************************)
(* Browser sessions: withBrowserSession(callback, options)                 *)
(*                                                                         *)
(* A session id is a positive number, the ordinal of the session among     *)
(* those the service created (the service answers every creation with a    *)
(* fresh uuid); Null is null/undefined.  A block is one call of            *)
(* withBrowserSession; its callback is code of the caller, which here      *)
(* submits jobs, calls withBrowserSession again and awaits it (a nested    *)
(* block), and settles by returning or throwing.  Blocks called with no    *)
(* parent are started by the caller at any time, so they may overlap.      *)
(* closeRequests is the bag of the close requests issued so far, submitted *)
(* the latest job submission, created the number of sessions created.      *)
(***************************************************************************)
Null == 0

\* two client instances
Clients == {1, 2}
BlockIds == 1..MaxBlocks

\* the id a caller may pass as an explicit browserSessionId: that of a
\* session created outside the blocks
ExplicitIds == {MaxBlocks + 1}

\* how a callback settles: it returns a value or throws an error
CallbackOutcomes ==
    {[kind |-> "returned", value |-> "callbackValue"],
     [kind |-> "thrown", value |-> "callbackError"]}
NoOutcome == [kind |-> "none", value |-> "none"]

\* DELETE /v1/browser-sessions/{sessionUuid} with params {force: true} or {}
CloseRequest(sessionUuid, force) == [uuid |-> sessionUuid, force |-> force]

\* a job submission: the operation, the client and the callback it was made
\* from, the browserSessionId option, and browser_session_id in the payload
\* (Null: the payload has no such key)
Submission(op, client, block, browserSessionId, payloadId) ==
    [op |-> op, client |-> client, block |-> block,
     browserSessionId |-> browserSessionId, browser_session_id |-> payloadId]

NoSubmission == Submission("none", 0, 0, Null, Null)

BlockIdle ==
    [pc |-> "idle", client |-> 0, parent |-> 0, uuid |-> Null,
     previousSessionId |-> Null, callback |-> NoOutcome,
     closeFailed |-> FALSE, result |-> NoOutcome]

BlockDone(b) == blocks[b].pc \in {"returned", "thrown"}

\* the callback of block p is running its own code: it has not settled and
\* is not awaiting a nested block
CallbackRunning(p) ==
    /\ blocks[p].pc = "callback"
    /\ \A k \in BlockIds :
           blocks[k].parent = p => blocks[k].pc = "idle" \/ BlockDone(k)

\* (the slot first: this._activeSessionId ?? options.browserSessionId)
InjectedSessionId_slotFirst(browserSessionId, active) ==
    IF active # Null THEN active ELSE browserSessionId

\* options.browserSessionId ?? this._activeSessionId
InjectedSessionId(browserSessionId, active) ==
    IF browserSessionId # Null THEN browserSessionId ELSE active

\* withBrowserSession is called: up to the await of createBrowserSession
WithBrowserSessionCall(b, c, p) ==
    /\ blocks[b].pc = "idle"
    /\ \A k \in 1..(b - 1) : blocks[k].pc # "idle"
    /\ p # 0 => CallbackRunning(p)
    /\ blocks' = [blocks EXCEPT ![b] =
                      [BlockIdle EXCEPT !.pc = "creating", !.client = c,
                                        !.parent = p]]
    /\ UNCHANGED <<now, wait, run, cancel, call, activeSessionId, closeRequests, submitted,
                   created>>

\* (one slot shared by the client instances, as a static field would be)
CreateResolved_sharedSlot(b) ==
    /\ blocks[b].pc = "creating"
    /\ created' = created + 1
    /\ blocks' = [blocks EXCEPT ![b].pc = "callback",
                                ![b].uuid = created',
                                ![b].previousSessionId =
                                    activeSessionId[blocks[b].client]]
    /\ activeSessionId' = [c \in Clients |-> created']
    /\ UNCHANGED <<now, wait, run, cancel, call, closeRequests, submitted>>

\* (the slot is saved but not set before the callback is invoked)
CreateResolved_noSet(b) ==
    /\ blocks[b].pc = "creating"
    /\ created' = created + 1
    /\ blocks' = [blocks EXCEPT ![b].pc = "callback",
                                ![b].uuid = created',
                                ![b].previousSessionId =
                                    activeSessionId[blocks[b].client]]
    /\ UNCHANGED <<now, wait, run, cancel, call, activeSessionId, closeRequests, submitted>>

\* createBrowserSession resolves: the slot is saved and set and the callback
\* is invoked
CreateResolved(b) ==
    /\ blocks[b].pc = "creating"
    /\ created' = created + 1
    /\ blocks' = [blocks EXCEPT ![b].pc = "callback",
                                ![b].uuid = created',
                                ![b].previousSessionId =
                                    activeSessionId[blocks[b].client]]
    /\ activeSessionId' =
           [activeSessionId EXCEPT ![blocks[b].client] = created']
    /\ UNCHANGED <<now, wait, run, cancel, call, closeRequests, submitted>>

\* (the slot cleared when the creation fails)
CreateRejected_clearsSlot(b) ==
    /\ blocks[b].pc = "creating"
    /\ blocks' = [blocks EXCEPT ![b].pc = "thrown",
                                ![b].result =
                                    [kind |-> "thrown", value |-> "createError"]]
    /\ activeSessionId' = [activeSessionId EXCEPT ![blocks[b].client] = Null]
    /\ UNCHANGED <<now, wait, run, cancel, call, closeRequests, submitted,
                   created>>

\* createBrowserSession rejects
CreateRejected(b) ==
    /\ blocks[b].pc = "creating"
    /\ blocks' = [blocks EXCEPT ![b].pc = "thrown",
                                ![b].result =
                                    [kind |-> "thrown", value |-> "createError"]]
    /\ UNCHANGED <<now, wait, run, cancel, call, activeSessionId, closeRequests, submitted,
                   created>>

\* the callback submits a job (runWorkflow or runTalent), with an explicit
\* browserSessionId or without (Null)
CallbackSubmits(b, op, browserSessionId) ==
    /\ CallbackRunning(b)
    /\ submitted' =
           Submission(op, blocks[b].client, b, browserSessionId,
                      InjectedSessionId(browserSessionId,
                                        activeSessionId[blocks[b].client]))
    /\ UNCHANGED <<now, wait, run, cancel, call, activeSessionId, blocks, closeRequests,
                   created>>

\* code outside every callback submits a job on client c
TopLevelSubmits(c, op, browserSessionId) ==
    /\ submitted' =
           Submission(op, c, 0, browserSessionId,
                      InjectedSessionId(browserSessionId, activeSessionId[c]))
    /\ UNCHANGED <<now, wait, run, cancel, call, activeSessionId, blocks, closeRequests,
                   created>>

\* (the finally block writes the block's own session id to the slot)
CallbackSettles_keepsOwn(b, outcome) ==
    /\ CallbackRunning(b)
    /\ blocks' = [blocks EXCEPT ![b].pc = "closing", ![b].callback = outcome]
    /\ activeSessionId' =
           [activeSessionId EXCEPT ![blocks[b].client] = blocks[b].uuid]
    /\ closeRequests' =
           closeRequests (+) SetToBag({CloseRequest(blocks[b].uuid, TRUE)})
    /\ UNCHANGED <<now, wait, run, cancel, call, submitted, created>>

\* (the close request sent first, the slot left for after it)
CallbackSettles_closeFirst(b, outcome) ==
    /\ CallbackRunning(b)
    /\ blocks' = [blocks EXCEPT ![b].pc = "closing", ![b].callback = outcome]
    /\ closeRequests' =
           closeRequests (+) SetToBag({CloseRequest(blocks[b].uuid, TRUE)})
    /\ UNCHANGED <<now, wait, run, cancel, call, activeSessionId, submitted,
                   created>>

\* (try without finally: no teardown when the callback throws)
CallbackSettles_noFinally(b, outcome) ==
    /\ CallbackRunning(b)
    /\ IF outcome.kind = "thrown"
       THEN /\ blocks' = [blocks EXCEPT ![b].pc = "thrown",
                                        ![b].callback = outcome,
                                        ![b].result = outcome]
            /\ UNCHANGED <<activeSessionId, closeRequests>>
       ELSE /\ blocks' = [blocks EXCEPT ![b].pc = "closing",
                                        ![b].callback = outcome]
            /\ activeSessionId' =
                   [activeSessionId EXCEPT ![blocks[b].client] =
                       blocks[b].previousSessionId]
            /\ closeRequests' =
                   closeRequests (+) SetToBag({CloseRequest(blocks[b].uuid, TRUE)})
    /\ UNCHANGED <<now, wait, run, cancel, call, submitted, created>>

\* (the finally block clears the slot instead of restoring it)
CallbackSettles_resetNull(b, outcome) ==
    /\ CallbackRunning(b)
    /\ blocks' = [blocks EXCEPT ![b].pc = "closing", ![b].callback = outcome]
    /\ activeSessionId' = [activeSessionId EXCEPT ![blocks[b].client] = Null]
    /\ closeRequests' =
           closeRequests (+) SetToBag({CloseRequest(blocks[b].uuid, TRUE)})
    /\ UNCHANGED <<now, wait, run, cancel, call, submitted, created>>

\* the callback settles (returns or throws): the finally block restores the
\* slot and issues the close request, up to its await
CallbackSettles(b, outcome) ==
    /\ CallbackRunning(b)
    /\ blocks' = [blocks EXCEPT ![b].pc = "closing", ![b].callback = outcome]
    /\ activeSessionId' =
           [activeSessionId EXCEPT ![blocks[b].client] =
               blocks[b].previousSessionId]
    /\ closeRequests' =
           closeRequests (+) SetToBag({CloseRequest(blocks[b].uuid, TRUE)})
    /\ UNCHANGED <<now, wait, run, cancel, call, submitted, created>>

\* closeBrowserSession resolves: the callback's outcome is the call's
CloseResolved(b) ==
    /\ blocks[b].pc = "closing"
    /\ blocks' = [blocks EXCEPT ![b].pc = blocks[b].callback.kind,
                                ![b].result = blocks[b].callback]
    /\ UNCHANGED <<now, wait, run, cancel, call, activeSessionId, closeRequests, submitted,
                   created>>

\* (no catch around the close request: its error leaves the finally block)
CloseRejected_propagates(b) ==
    /\ blocks[b].pc = "closing"
    /\ blocks' = [blocks EXCEPT ![b].pc = "thrown",
                                ![b].closeFailed = TRUE,
                                ![b].result =
                                    [kind |-> "thrown", value |-> "closeError"]]
    /\ UNCHANGED <<now, wait, run, cancel, call, activeSessionId, closeRequests, submitted,
                   created>>

\* closeBrowserSession rejects: the error is caught and dropped
CloseRejected(b) ==
    /\ blocks[b].pc = "closing"
    /\ blocks' = [blocks EXCEPT ![b].pc = blocks[b].callback.kind,
                                ![b].closeFailed = TRUE,
                                ![b].result = blocks[b].callback]
    /\ UNCHANGED <<now, wait, run, cancel, call, activeSessionId, closeRequests, submitted,
                   created>>

\* the operations that submit a job: runWorkflowAndWait submits through
\* runWorkflow, passing options.browserSessionId on
Operations == {"runWorkflow", "runTalent", "runWorkflowAndWait"}

\* withBrowserSession has been called and has not settled
InProgress(b) == blocks[b].pc \in {"creating", "callback", "closing"}

\* the blocks enclosing the code of callback p, p included (0: code outside
\* every callback)
RECURSIVE Ancestors(_)
Ancestors(p) == IF p = 0 THEN {} ELSE {p} \cup Ancestors(blocks[p].parent)

\* a caller that uses client c serially: from code at p it calls
\* withBrowserSession or submits only when every block of c in progress
\* encloses p, that is, it awaits each block before it uses c again
Serial(c, p) ==
    \A k \in BlockIds :
        InProgress(k) /\ blocks[k].client = c => k \in Ancestors(p)

SessionIdle ==
    /\ activeSessionId = [c \in Clients |-> Null]
    /\ blocks = [b \in BlockIds |-> BlockIdle]
    /\ closeRequests = EmptyBag
    /\ submitted = NoSubmission
    /\ created = 0

(***************************************************************************)
(* The session requests called by hand: createBrowserSession(options),     *)
(* listBrowserSessions(), getBrowserSession(sessionUuid) and               *)
(* closeBrowserSession(sessionUuid).  call is the one call the caller      *)
(* makes, between its polling calls: arg is the session id passed (Null:   *)
(* none), ret the id of the session in the response or the error.          *)
(***************************************************************************)
SessionRequests ==
    {"createBrowserSession", "listBrowserSessions", "getBrowserSession",
     "closeBrowserSession"}

\* the session ids a caller may pass: that of a session created outside the
\* blocks, and the id client.sessionId returns
SessionUuidArgs(fn) ==
    IF fn \in {"createBrowserSession", "listBrowserSessions"}
    THEN {Null}
    ELSE ExplicitIds \cup ({activeSessionId[c] : c \in Clients} \ {Null})

SessionRequestWhat(fn) ==
    CASE fn = "createBrowserSession" -> "creating browser session"
      [] fn = "listBrowserSessions" -> "listing browser sessions"
      [] fn = "getBrowserSession" -> "getting browser session"
      [] fn = "closeBrowserSession" -> "closing browser session"

\* the request is built and sent: up to the await
SessionRequestCalled(fn, sessionUuid) ==
    /\ call.pc = "idle"
    /\ wait.pc = "idle" /\ run.pc = "idle"
    /\ sessionUuid \in SessionUuidArgs(fn)
    /\ call' = [fn |-> fn, arg |-> sessionUuid, pc |-> "awaiting",
                ret |-> NoReturn]
    /\ closeRequests' =
           IF fn = "closeBrowserSession"
           THEN closeRequests (+) SetToBag({CloseRequest(sessionUuid, FALSE)})
           ELSE closeRequests
    /\ UNCHANGED <<now, wait, run, cancel, activeSessionId, blocks, submitted,
                   created>>

\* (createBrowserSession making the session it created the active one)
SessionRequestResolved_activates ==
    /\ call.pc = "awaiting"
    /\ created' = IF call.fn = "createBrowserSession"
                  THEN created + 1 ELSE created
    /\ call' = [call EXCEPT !.pc = "returned",
                            !.ret = IF call.fn = "createBrowserSession"
                                    THEN created' ELSE call.arg]
    /\ activeSessionId' =
           IF call.fn = "createBrowserSession"
           THEN [c \in Clients |-> created'] ELSE activeSessionId
    /\ UNCHANGED <<now, wait, run, cancel, blocks, closeRequests, submitted>>

\* the request resolves: the response is returned (for createBrowserSession
\* the session the service created, with a fresh id)
SessionRequestResolved ==
    /\ call.pc = "awaiting"
    /\ created' = IF call.fn = "createBrowserSession"
                  THEN created + 1 ELSE created
    /\ call' = [call EXCEPT !.pc = "returned",
                            !.ret = IF call.fn = "createBrowserSession"
                                    THEN created' ELSE call.arg]
    /\ UNCHANGED <<now, wait, run, cancel, activeSessionId, blocks,
                   closeRequests, submitted>>

\* the request rejects: the error is wrapped and thrown
SessionRequestRejected ==
    /\ call.pc = "awaiting"
    /\ call' = [call EXCEPT !.pc = "thrown",
                    !.ret = RequestErrorMessage(SessionRequestWhat(call.fn))]
    /\ UNCHANGED <<now, wait, run, cancel, sessVars>>

(***************************************************************************)
(* Specifications: one per operation, the other operations idle.           *)
(***************************************************************************)
InitWait ==
    /\ now = 0
    /\ cancel = CancelIdle
    /\ call = CallIdle
    /\ wait \in {WaitCalled(o) : o \in WaitOptions}
    /\ run = RunIdle
    /\ SessionIdle

NextWait ==
    \/ WaitEnter
    \/ WaitMinWaitElapsed
    \/ WaitFetchResolved
    \/ WaitFetchRejected
    \/ WaitSleepElapsed

SpecWait == InitWait /\ [][NextWait]_vars

InitRun ==
    /\ now = 0
    /\ cancel = CancelIdle
    /\ call = CallIdle
    /\ wait = WaitIdle
    /\ run \in {RunCalled(o) : o \in RunOptions}
    /\ SessionIdle

NextRun ==
    \/ RunEnter
    \/ RunSubmitResolved
    \/ RunSubmitRejected
    \/ RunFetchResolved
    \/ RunFetchRejected
    \/ RunSleepElapsed

SpecRun == InitRun /\ [][NextRun]_vars

\* one polling call, of either operation, with a polling interval of a
\* second and the longest timeout, and a caller that may cancel the run
\* meanwhile
PollWaitOptions ==
    {o \in WaitOptions :
        /\ o.minWaitTime \in {0, Ms(1)}
        /\ o.pollingInterval = Ms(1)
        /\ o.timeout = Ms(MaxTimeout)}

PollRunOptions ==
    {o \in RunOptions : o.pollingInterval = Ms(1) /\ o.timeout = Ms(MaxTimeout)}

InitPoll ==
    /\ now = 0
    /\ cancel = CancelIdle
    /\ call = CallIdle
    /\ \/ wait \in {WaitCalled(o) : o \in PollWaitOptions} /\ run = RunIdle
       \/ wait = WaitIdle /\ run \in {RunCalled(o) : o \in PollRunOptions}
    /\ SessionIdle

NextPoll ==
    \/ NextWait
    \/ NextRun
    \/ CancelRunCall
    \/ CancelRunResolved
    \/ CancelRunRejected

SpecPoll == InitPoll /\ [][NextPoll]_vars

\* one call of a synchronous helper
\* one polling call of either kind, with every request and every timer
\* completing: a call that was made is entered, a pending timer fires, and a
\* pending request resolves unless it rejects
NextPolling ==
    \/ NextWait
    \/ NextRun

PollingFairness ==
    /\ WF_vars(WaitEnter)
    /\ WF_vars(WaitMinWaitElapsed)
    /\ WF_vars(WaitFetchResolved)
    /\ WF_vars(WaitSleepElapsed)
    /\ WF_vars(RunEnter)
    /\ WF_vars(RunSubmitResolved)
    /\ WF_vars(RunFetchResolved)
    /\ WF_vars(RunSleepElapsed)

\* one client program that uses every operation: a withBrowserSession block,
\* jobs submitted in its callback, and beside or inside the block either one
\* polling call (with cancelRun for its job) or one session request made by
\* hand
FrameWaitOptions ==
    {o \in WaitOptions :
        /\ o.targetStatus = COMPLETED
        /\ ~o.allInstructionsExecuted
        /\ o.pollingInterval = Ms(1)
        /\ o.timeout = Ms(1)}

FrameRunOptions ==
    {o \in RunOptions :
        /\ o.pollingInterval = Ms(1)
        /\ o.timeout = Ms(1)
        /\ ~o.returnIntermediateResults
        /\ ~o.onProgressGiven}

InitFrame ==
    /\ now = 0
    /\ cancel = CancelIdle
    /\ call = CallIdle
    /\ \/ wait \in {WaitCalled(o) : o \in FrameWaitOptions} /\ run = RunIdle
       \/ wait = WaitIdle /\ run \in {RunCalled(o) : o \in FrameRunOptions}
       \/ wait = WaitIdle /\ run = RunIdle
    /\ SessionIdle

NextFrame ==
    \/ \E c \in Clients : WithBrowserSessionCall(1, c, 0)
    \/ CreateResolved(1)
    \/ CreateRejected(1)
    \/ \E op \in Operations, id \in {Null} \cup ExplicitIds :
           CallbackSubmits(1, op, id)
    \/ \E outcome \in CallbackOutcomes : CallbackSettles(1, outcome)
    \/ CloseResolved(1)
    \/ CloseRejected(1)
    \/ NextWait
    \/ NextRun
    \/ CancelRunCall
    \/ CancelRunResolved
    \/ CancelRunRejected
    \/ \E fn \in SessionRequests, id \in {Null} \cup BlockIds \cup ExplicitIds :
           SessionRequestCalled(fn, id)
    \/ SessionRequestResolved
    \/ SessionRequestRejected

SpecFrame == InitFrame /\ [][NextFrame]_vars

\* one polling call of either kind with any options
InitPolling ==
    /\ now = 0
    /\ cancel = CancelIdle
    /\ call = CallIdle
    /\ \/ wait \in {WaitCalled(o) : o \in WaitOptions} /\ run = RunIdle
       \/ wait = WaitIdle /\ run \in {RunCalled(o) : o \in RunOptions}
    /\ SessionIdle

SpecPolling == InitPolling /\ [][NextPolling]_vars

\* the calls followed to their end: a polling interval of a second, the
\* longest timeout, and for waitUntilState the target Completed
InitPollFair ==
    /\ now = 0
    /\ cancel = CancelIdle
    /\ call = CallIdle
    /\ \/ /\ wait \in {WaitCalled(o) : o \in {q \in PollWaitOptions :
                                                q.targetStatus = COMPLETED}}
          /\ run = RunIdle
       \/ /\ wait = WaitIdle
          /\ run \in {RunCalled(o) : o \in PollRunOptions}
    /\ SessionIdle

SpecPollFair == InitPollFair /\ [][NextPolling]_vars /\ PollingFairness

\* calls of waitUntilState whose timeout allows at most MaxFetches fetches:
\* a polling interval of a second with each timeout of the model, and a
\* polling interval of 100 ms with a timeout of 250 ms
FetchCountOptions ==
    {o \in [targetStatus : WorkflowStatus,
            allInstructionsExecuted : BOOLEAN,
            minWaitTime : {0, Ms(1)},
            pollingInterval : {100, Ms(1)},
            timeout : {250} \cup {Ms(k) : k \in 0..MaxTimeout}] :
        o.pollingInterval = 100 <=> o.timeout = 250}

InitFetchCount ==
    /\ now = 0
    /\ cancel = CancelIdle
    /\ call = CallIdle
    /\ wait \in {WaitCalled(o) : o \in FetchCountOptions}
    /\ run = RunIdle
    /\ SessionIdle

SpecFetchCount == InitFetchCount /\ [][NextWait]_vars

InitHelpers ==
    /\ now = 0
    /\ wait = WaitIdle
    /\ run = RunIdle
    /\ cancel = CancelIdle
    /\ \/ call \in {Called("getStatusName", c) : c \in StatusCodeInputs}
       \/ call \in {Called("waitUntilState", o) : o \in WaitOptionsInputs}
       \/ call \in {Called("runWorkflowAndWait", o) : o \in RunOptionsInputs}
       \/ call \in {Called("getWorkflowResults", d) : d \in WireResults}
    /\ SessionIdle

NextHelpers ==
    \/ GetStatusNameReturns
    \/ WaitUntilStateReadsOptions
    \/ RunWorkflowAndWaitReadsOptions
    \/ GetWorkflowResultsTransforms

SpecHelpers == InitHelpers /\ [][NextHelpers]_vars

InitSession ==
    /\ now = 0
    /\ cancel = CancelIdle
    /\ call = CallIdle
    /\ wait = WaitIdle
    /\ run = RunIdle
    /\ SessionIdle

NextSession ==
    \E b \in BlockIds :
        \/ \E c \in Clients, p \in {0} \cup BlockIds :
               WithBrowserSessionCall(b, c, p)
        \/ CreateResolved(b)
        \/ CreateRejected(b)
        \/ \E op \in Operations, id \in {Null} \cup ExplicitIds :
               CallbackSubmits(b, op, id)
        \/ \E outcome \in CallbackOutcomes : CallbackSettles(b, outcome)
        \/ CloseResolved(b)
        \/ CloseRejected(b)

SpecSession == InitSession /\ [][NextSession]_vars

\* the blocks of each client serial or properly nested, the two clients
\* used concurrently; code outside the callbacks submits jobs too
NextNested ==
    \E b \in BlockIds :
        \/ \E c \in Clients, p \in {0} \cup BlockIds :
               Serial(c, p) /\ WithBrowserSessionCall(b, c, p)
        \/ CreateResolved(b)
        \/ CreateRejected(b)
        \/ \E op \in Operations, id \in {Null} \cup ExplicitIds :
               CallbackSubmits(b, op, id)
        \/ \E c \in Clients, op \in Operations, id \in {Null} \cup ExplicitIds :
               b = 1 /\ Serial(c, 0) /\ TopLevelSubmits(c, op, id)
        \/ \E outcome \in CallbackOutcomes : CallbackSettles(b, outcome)
        \/ CloseResolved(b)
        \/ CloseRejected(b)

SpecNested == InitSession /\ [][NextNested]_vars

(***************************************************************************)
(* Properties of waitUntilState.                                           *)
(***************************************************************************)
DisplayName(code) ==
    CASE code = "P" -> "pending"
      [] code = "R" -> "running"
      [] code = "C" -> "completed"
      [] code = "F" -> "failed"
      [] code = "X" -> "cancelled"

\* the success condition as the specification words it
LastStepCompleted(r) ==
    /\ r.hasExecutions
    /\ r.executions # <<>>
    /\ r.executions[Len(r.executions)] = "C"

SuccessCondition(r) ==
    /\ r.status = wait.targetStatus
    /\ wait.allInstructionsExecuted => LastStepCompleted(r)

WaitFetchedNow == wait.results # NoResult

IsTerminalMismatchError(e) ==
    Len(e) > 0 /\ e[1] = "Workflow run reached terminal status '"

IsWaitTimeoutError(e) ==
    Len(e) > 0 /\ e[1] = "Workflow run did not reach "

IsRequestError(e) == Len(e) > 0 /\ e[1] = "Error "

\* C1: waitUntilState returns a snapshot only if its status equals the
\* target and, when allInstructionsExecuted is set, its executions list is
\* non-empty and its last element is Completed; a fetched snapshot that
\* meets this is returned whatever its earlier elements are, and nothing is
\* returned otherwise.
C1_ReturnsOnlySuccess ==
    /\ wait.pc = "returned" => SuccessCondition(wait.ret)
    /\ wait.pc # "returned" => wait.ret = NoResult
    /\ WaitFetchedNow /\ SuccessCondition(wait.results)
           => wait.pc = "returned" /\ wait.ret = wait.results

C1_Witness ==
    /\ wait.pc = "returned"
    /\ wait.allInstructionsExecuted
    /\ Len(wait.ret.executions) = 2
    /\ wait.ret.executions[1] # "C"

\* C2: waitUntilState returns at the first fetch whose snapshot meets the
\* success condition: every fetched snapshot that meets it is returned at
\* that fetch, the returned snapshot is the last one fetched, and one sleep
\* followed each earlier fetch and none the last.  With fetches P,R a wait
\* for R has returned, with P,R,C a wait for C has returned, and a target
\* reached on the first fetch is returned after one fetch and no sleep.
C2_ReturnsAtFirstSuccess ==
    /\ WaitFetchedNow /\ SuccessCondition(wait.results)
           => wait.pc = "returned" /\ wait.ret = wait.results
    /\ wait.pc = "returned" =>
           /\ wait.ret.id = Len(wait.fetched)
           /\ wait.sleeps = Len(wait.fetched) - 1
    /\ ~wait.allInstructionsExecuted =>
           /\ \A i \in 1..Len(wait.fetched) :
                  wait.fetched[i] = wait.targetStatus
                      => i = Len(wait.fetched) /\ wait.pc = "returned"
           /\ wait.fetched = <<"P", "R">> /\ wait.targetStatus = "R"
                  => wait.pc = "returned" /\ wait.ret.status = "R"
           /\ wait.fetched = <<"P", "R", "C">> /\ wait.targetStatus = "C"
                  => wait.pc = "returned" /\ wait.ret.status = "C"
           /\ Len(wait.fetched) = 1 /\ wait.fetched[1] = wait.targetStatus
                  => wait.pc = "returned" /\ wait.sleeps = 0

C2_Witness ==
    /\ wait.pc = "returned"
    /\ wait.fetched = <<"P", "R", "C">>
    /\ wait.targetStatus = "C"
    /\ wait.sleeps = 2

\* C3: a fetch of waitUntilState that observes a terminal status (C, F or
\* X) other than the target fails the call with the terminal-mismatch error
\* at that fetch, for terminal and non-terminal targets alike: it is the
\* last fetch and no sleep follows it.
C3_TerminalMismatchAtOnce ==
    /\ WaitFetchedNow /\ wait.results.status \in {"C", "F", "X"}
          /\ wait.results.status # wait.targetStatus
           => /\ wait.pc = "thrown"
              /\ IsTerminalMismatchError(wait.error)
              /\ wait.results.id = Len(wait.fetched)
              /\ wait.sleeps = Len(wait.fetched) - 1
    /\ \A i \in 1..Len(wait.fetched) :
           wait.fetched[i] \in {"C", "F", "X"} /\ wait.fetched[i] # wait.targetStatus
               => /\ i = Len(wait.fetched)
                  /\ wait.pc = "thrown"
                  /\ IsTerminalMismatchError(wait.error)
                  /\ wait.sleeps = i - 1

C3_Witness ==
    /\ wait.pc = "thrown"
    /\ wait.targetStatus = "R"
    /\ wait.fetched = <<"X">>
    /\ wait.sleeps = 0
    /\ IsTerminalMismatchError(wait.error)

\* a snapshot at the target status with its steps not done sends the call to
\* sleep; what is returned has its last step Completed
C4_StepsPendingInv ==
    /\ wait.allInstructionsExecuted /\ WaitFetchedNow
          /\ wait.results.status = wait.targetStatus
          /\ ~LastStepCompleted(wait.results)
           => /\ wait.pc = "sleeping"
              /\ wait.ret = NoResult
              /\ wait.error = NoError
    /\ wait.allInstructionsExecuted /\ wait.pc = "returned"
           => LastStepCompleted(wait.ret)

\* what follows a sleep: another fetch, or the timeout error
C4_SleepStep ==
    wait.pc = "sleeping" =>
        \/ /\ wait'.pc = "fetching"
           /\ now' - wait.startTime < wait.timeout
        \/ /\ wait'.pc = "thrown"
           /\ IsWaitTimeoutError(wait'.error)
           /\ now' - wait.startTime >= wait.timeout

\* C4: with allInstructionsExecuted set, a fetched snapshot whose status is
\* the target but whose executions list is absent, empty or does not end in
\* Completed is not returned and fails nothing: the call goes to sleep, and
\* from the sleep it either fetches again (timeout not elapsed) or fails by
\* timeout (timeout elapsed).
C4_KeepsPollingUntilStepsDone ==
    []C4_StepsPendingInv /\ [][C4_SleepStep]_vars

C4_Witness ==
    /\ wait.pc = "returned"
    /\ wait.allInstructionsExecuted
    /\ Len(wait.fetched) = 3
    /\ wait.fetched[1] = wait.targetStatus
    /\ wait.fetched[2] = wait.targetStatus

\* a step that evaluates the condition of the while loop
WaitAtLoopHead ==
    /\ wait.pc \in {"call", "minWait", "sleeping"}
    /\ wait'.pc # "minWait"

\* a fetch is in flight only while the timeout has not elapsed; the timeout
\* error comes with nothing returned and with the message described
C5_Inv ==
    /\ wait.pc = "fetching" => now - wait.startTime < wait.timeout
    /\ wait.pc = "thrown" /\ IsWaitTimeoutError(wait.error) =>
           /\ now - wait.startTime >= wait.timeout
           /\ wait.ret = NoResult
           /\ \E i \in 1..Len(wait.error) - 2 :
                  /\ wait.error[i] = "status '"
                  /\ wait.error[i + 1] = DisplayName(wait.targetStatus)
                  /\ wait.error[i + 2] = "'"
           /\ (" and all instructions executed" \in Range(wait.error))
                  <=> wait.allInstructionsExecuted

\* at the head of the loop: timeout elapsed iff the timeout error is thrown
C5_Step ==
    WaitAtLoopHead =>
        (now' - wait'.startTime >= wait.timeout
            <=> wait'.pc = "thrown" /\ IsWaitTimeoutError(wait'.error))

\* C5: when the timeout has elapsed at the head of the loop, waitUntilState
\* fails with the timeout error and returns nothing; the call only fetches
\* while the timeout has not elapsed.  The message names the target by its
\* display name and holds the note ' and all instructions executed' exactly
\* when allInstructionsExecuted was set.
C5_TimeoutError == []C5_Inv /\ [][C5_Step]_vars

C5_Witness ==
    /\ wait.pc = "thrown"
    /\ IsWaitTimeoutError(wait.error)
    /\ wait.allInstructionsExecuted
    /\ Len(wait.fetched) = 2

(***************************************************************************)
(* Properties of runWorkflowAndWait.                                       *)
(***************************************************************************)
RunFetchedNow == run.results # NoResult

IsRunTimeoutError(e) ==
    Len(e) > 0 /\ e[1] = "Workflow execution timed out after "

\* C6: runWorkflowAndWait returns at the first fetch whose snapshot has a
\* terminal status (C, F or X): that fetch is the last, no sleep follows it,
\* and the call returns normally, with no error, for Failed and Cancelled
\* as for Completed.  Without returnIntermediateResults the value returned
\* is that terminal snapshot.
C6_ReturnsAtFirstTerminal ==
    /\ RunFetchedNow /\ run.results.status \in {"C", "F", "X"}
           => /\ run.pc = "returned"
              /\ run.error = NoError
              /\ run.results.id = Len(run.fetched)
              /\ run.sleeps = Len(run.fetched) - 1
              /\ ~run.returnIntermediateResults
                    => run.retKind = "result" /\ run.ret = run.results
    /\ \A i \in 1..Len(run.fetched) :
           run.fetched[i] \in {"C", "F", "X"}
               => /\ i = Len(run.fetched)
                  /\ run.pc = "returned"
                  /\ run.error = NoError
                  /\ run.sleeps = i - 1

C6_Witness ==
    /\ run.pc = "returned"
    /\ run.retKind = "result"
    /\ run.ret.status = "X"
    /\ run.fetched = <<"P", "X">>

\* C7: with returnIntermediateResults the value returned is the array of
\* all snapshots fetched, in fetch order: as long as the fetch log, its
\* i-th element the i-th snapshot fetched, the last terminal and every
\* earlier one non-terminal.
C7_IntermediateResults ==
    run.pc = "returned" /\ run.returnIntermediateResults =>
        /\ run.retKind = "array"
        /\ Len(run.retArray) = Len(run.fetched)
        /\ Len(run.retArray) >= 1
        /\ \A i \in 1..Len(run.retArray) :
               /\ run.retArray[i].id = i
               /\ run.retArray[i].status = run.fetched[i]
               /\ run.retArray[i].status \in {"C", "F", "X"}
                      <=> i = Len(run.retArray)
        /\ run.retArray[Len(run.retArray)] = run.results

C7_Witness ==
    /\ run.pc = "returned"
    /\ run.retKind = "array"
    /\ Len(run.retArray) = 3
    /\ run.retArray[3].status = "F"

\* C8: the caller's onProgress is invoked once for each snapshot fetched,
\* in fetch order and with that snapshot: in every state the invocations so
\* far are the snapshots fetched so far, the terminal one included by the
\* time the call has returned.
C8_OnProgressEveryFetch ==
    /\ run.onProgressGiven =>
           /\ Len(run.progress) = Len(run.fetched)
           /\ \A i \in 1..Len(run.progress) :
                  /\ run.progress[i].id = i
                  /\ run.progress[i].status = run.fetched[i]
           /\ RunFetchedNow => run.progress[Len(run.progress)] = run.results
           /\ run.pc = "returned" =>
                  run.progress[Len(run.progress)].status \in {"C", "F", "X"}
    /\ ~run.onProgressGiven => run.progress = <<>>

C8_Witness ==
    /\ run.pc = "returned"
    /\ run.onProgressGiven
    /\ Len(run.progress) = 3
    /\ run.progress[3].status = "C"

\* a step that evaluates the condition of the while loop
RunAtLoopHead ==
    \/ run.pc = "sleeping"
    \/ run.pc = "submitting" /\ ~IsRequestError(run'.error)

\* a fetch is in flight only while the timeout has not elapsed; the timeout
\* error comes after non-terminal snapshots only, names the seconds, and
\* nothing is returned by a call that threw
C9_Inv ==
    /\ run.pc = "fetching" => now - run.startTime < run.timeout
    /\ run.pc = "thrown" /\ IsRunTimeoutError(run.error) =>
           /\ now - run.startTime >= run.timeout
           /\ \A i \in 1..Len(run.fetched) :
                  run.fetched[i] \notin {"C", "F", "X"}
           /\ run.error = <<"Workflow execution timed out after ",
                            ToString(run.timeout \div 1000), " seconds">>
           /\ run.retKind = "none"
           /\ run.ret = NoResult
           /\ run.retArray = <<>>
    /\ run.pc = "thrown" => run.retKind = "none"

\* at the head of the loop: timeout elapsed iff the timeout error is thrown
C9_Step ==
    RunAtLoopHead =>
        (now' - run'.startTime >= run.timeout
            <=> run'.pc = "thrown" /\ IsRunTimeoutError(run'.error))

\* C9: when the timeout has elapsed at the head of the loop and no snapshot
\* fetched was terminal, runWorkflowAndWait fails with the timeout error,
\* whose message names the timeout in seconds, and returns neither a
\* snapshot nor the array accumulated; it only fetches while the timeout
\* has not elapsed.
C9_RunTimeoutError == []C9_Inv /\ [][C9_Step]_vars

C9_Witness ==
    /\ run.pc = "thrown"
    /\ IsRunTimeoutError(run.error)
    /\ run.returnIntermediateResults
    /\ Len(run.intermediateResults) = 2
    /\ run.timeout = 2000

(***************************************************************************)
(* Properties of withBrowserSession.                                       *)
(***************************************************************************)
\* the close requests issued for the session of block b, forced and not
ForcedCloses(b) == CopiesIn(CloseRequest(blocks[b].uuid, TRUE), closeRequests)
UnforcedCloses(b) == CopiesIn(CloseRequest(blocks[b].uuid, FALSE), closeRequests)

CallbackSettled(b) == blocks[b].callback.kind \in {"returned", "thrown"}

\* C10: every session created by withBrowserSession gets exactly one close
\* request from it, with force=true: none while the callback is running,
\* one from the moment the callback has settled, by returning or by
\* throwing, and no other close request is ever issued.
C10_ClosedOnceAfterCallback ==
    /\ \A b \in BlockIds :
           /\ blocks[b].uuid # Null /\ ~CallbackSettled(b) =>
                  /\ blocks[b].pc = "callback"
                  /\ ForcedCloses(b) = 0
                  /\ UnforcedCloses(b) = 0
           /\ blocks[b].uuid # Null /\ CallbackSettled(b) =>
                  /\ blocks[b].pc \in {"closing", blocks[b].callback.kind}
                  /\ ForcedCloses(b) = 1
                  /\ UnforcedCloses(b) = 0
           /\ BlockDone(b) /\ blocks[b].result.value # "createError" =>
                  blocks[b].uuid # Null /\ CallbackSettled(b)
    /\ BagCardinality(closeRequests)
           = Cardinality({b \in BlockIds :
                             blocks[b].uuid # Null /\ CallbackSettled(b)})

C10_Witness ==
    /\ blocks[1].pc = "thrown"
    /\ blocks[1].callback.kind = "thrown"
    /\ blocks[2].pc = "returned"
    /\ blocks[2].parent = 1
    /\ ForcedCloses(1) = 1
    /\ ForcedCloses(2) = 1

\* the innermost block of client c among p and the blocks enclosing p (0:
\* none)
RECURSIVE EnclosingBlock(_, _)
EnclosingBlock(c, p) ==
    IF p = 0 THEN 0
    ELSE IF blocks[p].client = c THEN p
    ELSE EnclosingBlock(c, blocks[p].parent)

\* the session id of the block of the same client that encloses block b
\* (Null: none does, and the slot was null before the outermost block)
OuterSessionId(b) ==
    LET e == EnclosingBlock(blocks[b].client, blocks[b].parent)
    IN  IF e = 0 THEN Null ELSE blocks[e].uuid

\* the blocks of the client of b that are in progress, b apart, are the
\* blocks enclosing b, each still in its callback
OnlyEnclosingInProgress(b) ==
    \A k \in BlockIds \ {b} :
        InProgress(k) /\ blocks[k].client = blocks[b].client =>
            k \in Ancestors(blocks[b].parent) /\ blocks[k].pc = "callback"

C12_CallbackOutcome ==
    \A b \in BlockIds :
        /\ BlockDone(b) /\ CallbackSettled(b) =>
               /\ blocks[b].pc = blocks[b].callback.kind
               /\ blocks[b].result = blocks[b].callback
               /\ blocks[b].result \in CallbackOutcomes
        /\ blocks[b].closeFailed => BlockDone(b) /\ CallbackSettled(b)

C12_Witness ==
    /\ blocks[1].pc = "returned"
    /\ blocks[1].closeFailed
    /\ blocks[1].result = [kind |-> "returned", value |-> "callbackValue"]
    /\ blocks[2].pc = "thrown"
    /\ blocks[2].closeFailed
    /\ blocks[2].result = [kind |-> "thrown", value |-> "callbackError"]

\* C13: a submission by runWorkflow, runTalent or runWorkflowAndWait whose
\* options give a browserSessionId carries that id as browser_session_id in
\* its payload, whatever the slot holds and however deep the callback it is
\* made from is nested.
C13_ExplicitIdWins ==
    submitted.op \in Operations /\ submitted.browserSessionId # Null =>
        /\ submitted.browser_session_id = submitted.browserSessionId
        /\ submitted.browser_session_id \notin
               {blocks[b].uuid : b \in BlockIds}

C13_Witness ==
    /\ submitted.op = "runWorkflowAndWait"
    /\ submitted.block = 2
    /\ blocks[2].parent = 1
    /\ blocks[2].pc = "callback"
    /\ submitted.browserSessionId \in ExplicitIds
    /\ submitted.browser_session_id = submitted.browserSessionId
    /\ activeSessionId[submitted.client] = blocks[2].uuid
    /\ activeSessionId[submitted.client] # submitted.browser_session_id

\* C14: with the blocks of a client serial or properly nested, a submission
\* without an explicit browserSessionId made from a callback carries the
\* session id of that callback's block, the innermost one enclosing it, and
\* one made outside the callbacks while no block of the client is in
\* progress has no browser_session_id in its payload.
C14_InnermostSessionInjected ==
    submitted.op \in Operations /\ submitted.browserSessionId = Null =>
        IF submitted.block # 0
        THEN /\ submitted.browser_session_id = blocks[submitted.block].uuid
             /\ submitted.browser_session_id # Null
             /\ submitted.block
                    = EnclosingBlock(submitted.client, submitted.block)
        ELSE submitted.browser_session_id = Null

C14_Witness ==
    /\ submitted.op = "runTalent"
    /\ submitted.browserSessionId = Null
    /\ submitted.block = 1
    /\ blocks[1].pc = "callback"
    /\ blocks[2].parent = 1
    /\ blocks[2].client = blocks[1].client
    /\ BlockDone(2)
    /\ blocks[2].uuid # Null
    /\ submitted.browser_session_id = blocks[1].uuid


\* C15: with the blocks of a client serial or properly nested, while the
\* callback of a block is executing the slot of its client holds the session
\* id that was passed to that callback; for a nested block that is its own
\* session id and not the enclosing block's.
C15_SessionIdInCallback ==
    \A b \in BlockIds :
        CallbackRunning(b) =>
            /\ activeSessionId[blocks[b].client] = blocks[b].uuid
            /\ blocks[b].uuid # Null
            /\ blocks[b].uuid # OuterSessionId(b)

C15_Witness ==
    /\ CallbackRunning(2)
    /\ blocks[2].parent = 1
    /\ blocks[2].client = blocks[1].client
    /\ blocks[1].pc = "callback"
    /\ activeSessionId[blocks[2].client] = blocks[2].uuid
    /\ blocks[2].uuid # blocks[1].uuid

\* C16: whenever no withBrowserSession block of a client is in progress
\* (none was called yet, or every one called has settled), the slot of that
\* client, which client.sessionId returns, is null, after every sequence and
\* interleaving of withBrowserSession calls.
C16_NullOutsideBlocks ==
    \A c \in Clients :
        (\A b \in BlockIds : blocks[b].client = c => ~InProgress(b)) =>
            activeSessionId[c] = Null

OwnSessionIds(c) ==
    {blocks[b].uuid : b \in {k \in BlockIds : blocks[k].client = c}} \ {Null}

\* C18: blocks running concurrently on two client instances (each client's
\* own blocks serial or nested) do not interfere: the slot of a client holds
\* null or a session id created by one of its own blocks, a submission
\* without explicit id made from a callback carries the id of that
\* callback's block, which is a block of the submitting client, and while a
\* block is exiting the slot of its client holds again the value saved on
\* entry, itself null or an id of that client.
C18_ClientsIndependent ==
    /\ \A c \in Clients :
           activeSessionId[c] \in {Null} \cup OwnSessionIds(c)
    /\ submitted.op \in Operations /\ submitted.browserSessionId = Null
           /\ submitted.block # 0 =>
               /\ submitted.browser_session_id = blocks[submitted.block].uuid
               /\ submitted.browser_session_id
                      \in OwnSessionIds(submitted.client)
    /\ \A b \in BlockIds :
           blocks[b].pc = "closing" =>
               /\ activeSessionId[blocks[b].client]
                      = blocks[b].previousSessionId
               /\ blocks[b].previousSessionId
                      \in {Null} \cup OwnSessionIds(blocks[b].client)

\* two outermost blocks on different clients, both in their callbacks; the
\* first one submits after the second one's session was created
C18_Witness ==
    /\ blocks[1].pc = "callback"
    /\ blocks[2].pc = "callback"
    /\ blocks[1].parent = 0
    /\ blocks[2].parent = 0
    /\ blocks[1].client # blocks[2].client
    /\ blocks[2].uuid < blocks[1].uuid
    /\ submitted.block = 1
    /\ submitted.browserSessionId = Null
    /\ submitted.browser_session_id = blocks[1].uuid
    /\ activeSessionId[blocks[1].client] = blocks[1].uuid
    /\ activeSessionId[blocks[2].client] = blocks[2].uuid

(***************************************************************************)
(* Properties of the polling calls under cancellation and request failure. *)
(***************************************************************************)
\* the polling call has fetched a snapshot since the run was cancelled
WaitFetchedSinceCancel == JobCancelled /\ Len(wait.fetched) > cancel.at
RunFetchedSinceCancel == JobCancelled /\ Len(run.fetched) > cancel.at

\* runWorkflowAndWait has returned the snapshot it fetched last, alone or as
\* the last element of the array, and its status is Cancelled
RunReturnedCancelled ==
    /\ run.pc = "returned"
    /\ run.results.status = CANCELLED
    /\ IF run.returnIntermediateResults
       THEN /\ run.retKind = "array"
            /\ run.retArray[Len(run.retArray)] = run.results
       ELSE run.retKind = "result" /\ run.ret = run.results

\* runWorkflowAndWait ended at the first fetch after the cancellation, by
\* returning the Cancelled snapshot
C19_RunPart ==
    RunFetchedSinceCancel =>
        /\ Len(run.fetched) = cancel.at + 1
        /\ run.fetched[Len(run.fetched)] = CANCELLED
        /\ RunReturnedCancelled

\* waitUntilState with a target other than Cancelled ended at the first
\* fetch after the cancellation, by the terminal-mismatch error
C19_WaitMismatchPart ==
    WaitFetchedSinceCancel /\ wait.targetStatus # CANCELLED =>
        /\ Len(wait.fetched) = cancel.at + 1
        /\ wait.fetched[Len(wait.fetched)] = CANCELLED
        /\ wait.pc = "thrown"
        /\ wait.error = TerminalMismatchMessage(CANCELLED, wait.targetStatus)

\* waitUntilState with target Cancelled ended at the first fetch after the
\* cancellation, by returning the Cancelled snapshot
WaitReturnedAtCancel ==
    /\ Len(wait.fetched) = cancel.at + 1
    /\ wait.fetched[Len(wait.fetched)] = CANCELLED
    /\ wait.pc = "returned"
    /\ wait.ret = wait.results
    /\ wait.ret.status = CANCELLED

\* C19 as stated: once the run is cancelled through cancelRun, the first
\* fetch of the polling call after that ends the call: runWorkflowAndWait
\* returns the Cancelled snapshot, waitUntilState returns it when the target
\* is Cancelled and raises terminal-mismatch otherwise.
C19_CancelEndsPolling ==
    /\ C19_RunPart
    /\ C19_WaitMismatchPart
    /\ WaitFetchedSinceCancel /\ wait.targetStatus = CANCELLED =>
           WaitReturnedAtCancel

\* C19 as amended: as stated, except that waitUntilState with target
\* Cancelled and allInstructionsExecuted set returns a Cancelled snapshot
\* only if its last step is Completed; on any other Cancelled snapshot it
\* sleeps and polls again, never failing by terminal mismatch, and returns
\* only such a snapshot.
C19_CancelEndsPollingUnlessStepsPending ==
    /\ C19_RunPart
    /\ C19_WaitMismatchPart
    /\ WaitFetchedSinceCancel /\ wait.targetStatus = CANCELLED
           /\ ~wait.allInstructionsExecuted =>
               WaitReturnedAtCancel
    /\ WaitFetchedSinceCancel /\ wait.targetStatus = CANCELLED
           /\ wait.allInstructionsExecuted =>
               /\ \A i \in (cancel.at + 1)..Len(wait.fetched) :
                      wait.fetched[i] = CANCELLED
               /\ ~IsTerminalMismatchError(wait.error)
               /\ wait.pc = "returned" =>
                      /\ wait.ret = wait.results
                      /\ wait.ret.status = CANCELLED
                      /\ checkAllExecutionsCompleted(wait.ret)
               /\ WaitFetchedNow =>
                      IF checkAllExecutionsCompleted(wait.results)
                      THEN wait.pc = "returned"
                      ELSE wait.pc = "sleeping"

\* polled once, cancelled, polled again: terminal mismatch at that fetch
C19_Witness ==
    /\ JobCancelled
    /\ cancel.at = 1
    /\ wait.fetched = <<RUNNING, CANCELLED>>
    /\ wait.targetStatus = COMPLETED
    /\ wait.pc = "thrown"
    /\ IsTerminalMismatchError(wait.error)

\* a step in which a pending fetch of the call ended without a snapshot: the
\* request failed
WaitFetchFailedStep ==
    /\ wait.pc = "fetching"
    /\ wait'.fetched = wait.fetched
    /\ wait' # wait \/ now' # now

RunFetchFailedStep ==
    /\ run.pc = "fetching"
    /\ run'.fetched = run.fetched
    /\ run' # run \/ now' # now

\* a step in which the pending submit ended without a run id
RunSubmitFailedStep ==
    /\ run.pc = "submitting"
    /\ run'.runId = "none"
    /\ run' # run \/ now' # now

C20_Step ==
    /\ WaitFetchFailedStep =>
           /\ wait'.pc = "thrown"
           /\ wait'.error = RequestErrorMessage("getting workflow results")
           /\ wait'.sleeps = wait.sleeps
    /\ RunFetchFailedStep =>
           /\ run'.pc = "thrown"
           /\ run'.error = RequestErrorMessage("getting workflow results")
           /\ run'.sleeps = run.sleeps
           /\ run'.submits = run.submits
    /\ RunSubmitFailedStep =>
           /\ run'.pc = "thrown"
           /\ run'.error = RequestErrorMessage("running workflow")
           /\ run'.fetched = <<>>
           /\ run'.sleeps = 0
           /\ run'.submits = 1
    /\ wait.pc = "thrown" => wait' = wait
    /\ run.pc = "thrown" => run' = run

\* C20: when the submit of runWorkflowAndWait or a fetch of
\* runWorkflowAndWait or waitUntilState fails, the call fails in that very
\* step with the request's error, without another submit, fetch or sleep,
\* and a call that has failed does nothing more.
C20_RequestFailurePropagates == [][C20_Step]_vars

\* the second fetch of runWorkflowAndWait failed
C20_Witness ==
    /\ run.pc = "thrown"
    /\ run.error = RequestErrorMessage("getting workflow results")
    /\ run.fetched = <<RUNNING>>
    /\ run.sleeps = 1
    /\ run.submits = 1

\* C21: of the five status codes exactly C, F and X are terminal and P and R
\* are not, and both polling operations exit on this classification: after a
\* fetch runWorkflowAndWait has returned if the status is C, F or X and
\* sleeps if it is P or R, and waitUntilState, when the status is not the
\* target, has failed by terminal mismatch if it is C, F or X and sleeps if
\* it is P or R.
C21_TerminalClassification ==
    /\ {s \in WorkflowStatus : s \in TERMINAL_STATUSES}
           = {COMPLETED, FAILED, CANCELLED}
    /\ {s \in WorkflowStatus : s \notin TERMINAL_STATUSES}
           = {PENDING, RUNNING}
    /\ RunFetchedNow =>
           /\ run.results.status \in {"C", "F", "X"} => run.pc = "returned"
           /\ run.results.status \in {"P", "R"} => run.pc = "sleeping"
    /\ WaitFetchedNow /\ wait.results.status # wait.targetStatus =>
           /\ wait.results.status \in {"C", "F", "X"} =>
                  wait.pc = "thrown" /\ IsTerminalMismatchError(wait.error)
           /\ wait.results.status \in {"P", "R"} => wait.pc = "sleeping"

C21_Witness ==
    /\ run.pc = "returned"
    /\ run.fetched = <<RUNNING, CANCELLED>>
    /\ run.sleeps = 1

(***************************************************************************)
(* Further properties of waitUntilState.                                   *)
(***************************************************************************)
WaitFetchIssued == wait.pc = "fetching" \/ wait.fetched # <<>>

\* C23: a call of waitUntilState with minWaitTime > 0 issues no fetch before
\* minWaitTime has elapsed since the call (made at clock 0): whenever a
\* fetch is in flight or done, the clock and startTime are at least
\* minWaitTime. With minWaitTime = 0 the first fetch is issued with no sleep
\* before it: at the call's own instant and with no sleep begun.
C23_MinWaitBeforeFirstFetch ==
    /\ wait.pc # "idle" /\ wait.minWaitTime > 0 /\ WaitFetchIssued
           => /\ now >= wait.minWaitTime
              /\ wait.startTime >= wait.minWaitTime
    /\ wait.pc # "idle" /\ wait.minWaitTime > 0 /\ wait.pc \in {"call", "minWait"}
           => wait.fetched = <<>>
    /\ wait.minWaitTime = 0 /\ wait.pc = "fetching" /\ wait.fetched = <<>>
           => now = 0 /\ wait.startTime = 0 /\ wait.sleeps = 0
    /\ wait.minWaitTime = 0 => wait.pc # "minWait"

C23_Witness ==
    /\ wait.minWaitTime = Ms(1)
    /\ wait.pc = "fetching"
    /\ wait.fetched = <<>>
    /\ wait.startTime = Ms(1)
    /\ now = Ms(1)

\* C25: the terminal-mismatch error names the observed and the target status
\* by their display names, not by their codes; for the fetch sequence
\* Pending, Failed and target Completed the call fails at the second fetch
\* with a message that holds 'failed' and 'completed'.
C25_MismatchMessageNames ==
    /\ wait.pc = "thrown" /\ IsTerminalMismatchError(wait.error)
           => /\ wait.fetched # <<>>
              /\ wait.error =
                     <<"Workflow run reached terminal status '",
                       DisplayName(wait.fetched[Len(wait.fetched)]),
                       "' before reaching target status '",
                       DisplayName(wait.targetStatus), "'">>
    /\ (/\ wait.pc # "idle" /\ wait.targetStatus = "C"
        /\ Len(wait.fetched) >= 2
        /\ wait.fetched[1] = "P" /\ wait.fetched[2] = "F")
           => /\ Len(wait.fetched) = 2
              /\ wait.pc = "thrown"
              /\ IsTerminalMismatchError(wait.error)
              /\ wait.error[2] = "failed"
              /\ wait.error[4] = "completed"

C25_Witness ==
    /\ wait.pc = "thrown"
    /\ wait.targetStatus = "C"
    /\ wait.fetched = <<"P", "F">>
    /\ wait.error = <<"Workflow run reached terminal status '", "failed",
                      "' before reaching target status '", "completed", "'">>

(***************************************************************************)
(* Properties of the synchronous helpers.                                  *)
(***************************************************************************)
\* the display name of the five codes, and any other code itself
NameOrRawCode(code) ==
    IF code \in {"P", "R", "C", "F", "X"} THEN DisplayName(code) ELSE code

\* C22: getStatusName returns 'pending', 'running', 'completed', 'failed',
\* 'cancelled' for P, R, C, F, X and the code itself for every other code;
\* it always returns, and the call changes nothing but its own result.
C22_StatusNameLookup ==
    /\ call.fn = "getStatusName" /\ call.pc = "returned" =>
           call.ret = NameOrRawCode(call.arg)
    /\ call.fn = "getStatusName" =>
           /\ now = 0
           /\ wait = WaitIdle
           /\ run = RunIdle
           /\ cancel = CancelIdle
           /\ SessionIdle

\* the values given in the options and the values used without them
WaitUntilStateDocumentedDefaults ==
    [allInstructionsExecuted |-> FALSE, minWaitTime |-> 0,
     pollingInterval |-> 2000, timeout |-> 60000]

RunWorkflowAndWaitDocumentedDefaults ==
    [pollingInterval |-> 5000, timeout |-> 300000,
     returnIntermediateResults |-> FALSE]

GivenOrDefault(options, used, defaults) ==
    /\ DOMAIN used = DOMAIN defaults
    /\ \A field \in DOMAIN defaults :
           used[field] = IF field \in DOMAIN options
                         THEN options[field]
                         ELSE defaults[field]

\* C26: waitUntilState uses allInstructionsExecuted=false, minWaitTime=0,
\* pollingInterval=2000 and timeout=60000, and runWorkflowAndWait
\* pollingInterval=5000, timeout=300000 and returnIntermediateResults=false,
\* for the options that are absent, and every value given, 0 and false
\* included, as given.
C26_OptionDefaults ==
    /\ call.fn = "waitUntilState" /\ call.pc = "returned" =>
           GivenOrDefault(call.arg, call.ret, WaitUntilStateDocumentedDefaults)
    /\ call.fn = "runWorkflowAndWait" /\ call.pc = "returned" =>
           GivenOrDefault(call.arg, call.ret,
                          RunWorkflowAndWaitDocumentedDefaults)

C26_Witness ==
    /\ call.fn = "waitUntilState"
    /\ call.pc = "returned"
    /\ DOMAIN call.arg = {"timeout", "minWaitTime"}
    /\ call.arg["timeout"] = 0
    /\ call.ret.timeout = 0
    /\ call.ret.minWaitTime = 1000
    /\ call.ret.pollingInterval = 2000
    /\ call.ret.allInstructionsExecuted = FALSE

Key_workflowId == <<"w", "o", "r", "k", "f", "l", "o", "w", "I", "d">>
Key_runId == <<"r", "u", "n", "I", "d">>
Key_instructionOrder ==
    <<"i", "n", "s", "t", "r", "u", "c", "t", "i", "o", "n", "O",
      "r", "d", "e", "r">>

\* a key and what it was renamed to: the same key, or the key with each
\* "_x" read as "X"
RECURSIVE Renames(_, _)
Renames(key, renamed) ==
    IF key = <<>> \/ renamed = <<>> THEN key = renamed
    ELSE \/ key[1] = renamed[1] /\ Renames(Tail(key), Tail(renamed))
         \/ /\ Len(key) >= 2 /\ key[1] = "_"
            /\ key[2] \in Range(LowerLetters)
            /\ renamed[1] \in Range(UpperLetters)
            /\ \E i \in DOMAIN LowerLetters :
                   LowerLetters[i] = key[2] /\ UpperLetters[i] = renamed[1]
            /\ Renames(SubSeq(key, 3, Len(key)), Tail(renamed))

\* out is wire with keys renamed and nothing else changed: the same values
\* at the same places, each under the same or the renamed key
RECURSIVE RenamedOnly(_, _)
RenamedOnly(wire, out) ==
    /\ out.kind = wire.kind
    /\ out.text = wire.text
    /\ Len(out.members) = Len(wire.members)
    /\ \A i \in DOMAIN out.members :
           /\ Renames(wire.members[i].key, out.members[i].key)
           /\ RenamedOnly(wire.members[i].value, out.members[i].value)

\* C27: status codes round-trip: the status of the snapshot getWorkflowResults
\* returns, and of every execution step in it, is the code received on the
\* wire (the polling operations return that snapshot as it is); the
\* translation renames keys (run_id to runId, instruction_order to
\* instructionOrder) and nothing else: every value received is returned, at
\* its place and unaltered.
C27_StatusRoundTrip ==
    call.fn = "getWorkflowResults" /\ call.pc = "returned" =>
        LET wire == call.arg
            out == call.ret
        IN  /\ Has(out, Key_status)
            /\ Get(out, Key_status) = Get(wire, Key_status)
            /\ Get(out, Key_status).kind = "string"
            /\ Get(out, Key_status).text \in WorkflowStatus
            /\ Has(out, Key_runId) /\ ~Has(out, Key_run_id)
            /\ Get(out, Key_runId) = Get(wire, Key_run_id)
            /\ Has(out, Key_workflowId) /\ ~Has(out, Key_workflow_id)
            /\ Has(out, Key_executions) <=> Has(wire, Key_executions)
            /\ Has(wire, Key_executions) =>
                   LET sent == Get(wire, Key_executions).members
                       got == Get(out, Key_executions).members
                   IN  /\ Len(got) = Len(sent)
                       /\ \A i \in DOMAIN sent :
                              /\ Get(got[i].value, Key_status)
                                     = Get(sent[i].value, Key_status)
                              /\ Get(got[i].value, Key_instructionOrder)
                                     = Get(sent[i].value, Key_instruction_order)
            /\ RenamedOnly(wire, out)

(***************************************************************************)
(* Properties of overlapping withBrowserSession blocks.                    *)
(***************************************************************************)
\* block k has been called on the client of block b and neither encloses
\* the other: the two were started side by side
Overlapping(b, k) ==
    /\ k # b
    /\ blocks[k].pc # "idle"
    /\ blocks[k].client = blocks[b].client
    /\ k \notin Ancestors(b)
    /\ b \notin Ancestors(k)

\* the latest submission was made from callback b with no explicit id and
\* did not carry the id of b's own session
ForeignInjection(b) ==
    /\ submitted.block = b
    /\ submitted.browserSessionId = Null
    /\ submitted.browser_session_id # blocks[b].uuid

\* the slot of b's client does not hold b's session while b's callback runs
SlotLost(b) ==
    /\ CallbackRunning(b)
    /\ activeSessionId[blocks[b].client] # blocks[b].uuid

\* C28: two withBrowserSession blocks running side by side on one client
\* race on the slot: a job submitted in a callback with no explicit id can
\* go out with the other block's session id, and the slot can be cleared or
\* overwritten while a callback still runs; both happen only with another
\* block started side by side on the same client, and what a submission
\* then carries is the session id of another block of that client or none.
C28_SameClientRace ==
    \A b \in BlockIds :
        /\ ForeignInjection(b) =>
               /\ \E k \in BlockIds : Overlapping(b, k)
               /\ \/ submitted.browser_session_id = Null
                  \/ \E k \in BlockIds \ {b} :
                         /\ blocks[k].client = blocks[b].client
                         /\ submitted.browser_session_id = blocks[k].uuid
        /\ SlotLost(b) => \E k \in BlockIds : Overlapping(b, k)

C28_Witness ==
    /\ blocks[1].client = blocks[2].client
    /\ blocks[1].parent = 0 /\ blocks[2].parent = 0
    /\ ForeignInjection(1)
    /\ submitted.browser_session_id = blocks[2].uuid
    /\ blocks[2].uuid # Null
    /\ blocks[1].pc = "closing"
    /\ SlotLost(2)
    /\ activeSessionId[blocks[2].client] = Null

(***************************************************************************)
(* Timing of the polling operations.                                       *)
(***************************************************************************)
\* the longest a request takes and the longest a sleep of the polling
\* interval lasts (a timer fires on time or late)
LongestFetch == Ms(MaxLatency)

LongestSleep(pollingInterval) == pollingInterval + Ms(MaxJitter)

\* C29: the timeout is tested only at the head of a loop iteration and
\* interrupts neither a fetch nor a sleep: a fetch is begun only before the
\* deadline, and a call of waitUntilState or runWorkflowAndWait that fails
\* by timeout does so with every fetch it began resolved and followed by a
\* whole sleep, not before the timeout has elapsed since startTime and less
\* than one fetch plus one sleep of the polling interval after it.
C29_TimeoutAtLoopBoundary ==
    /\ wait.pc = "fetching" => now - wait.startTime < wait.timeout
    /\ wait.pc = "thrown" /\ IsWaitTimeoutError(wait.error) =>
           /\ now - wait.startTime >= wait.timeout
           /\ now - wait.startTime
                  < wait.timeout + LongestFetch + LongestSleep(wait.pollingInterval)
           /\ wait.fetched = <<>> => now = wait.startTime
           /\ wait.sleeps = Len(wait.fetched)
           /\ wait.results = NoResult
    /\ run.pc = "fetching" => now - run.startTime < run.timeout
    /\ run.pc = "thrown" /\ IsRunTimeoutError(run.error) =>
           /\ now - run.startTime >= run.timeout
           /\ now - run.startTime
                  < run.timeout + LongestFetch + LongestSleep(run.pollingInterval)
           /\ run.fetched = <<>> => now = run.startTime
           /\ run.sleeps = Len(run.fetched)

C29_Witness ==
    /\ wait.pc = "thrown"
    /\ IsWaitTimeoutError(wait.error)
    /\ Len(wait.fetched) = 2
    /\ wait.sleeps = 2
    /\ now - wait.startTime = wait.timeout + Ms(2)

(***************************************************************************)
(* The number of fetches of waitUntilState.                                *)
(***************************************************************************)
Ceil(a, b) == (a + b - 1) \div b

\* the fetches begun: those resolved and the one in flight
FetchesBegun == Len(wait.fetched) + (IF wait.pc = "fetching" THEN 1 ELSE 0)

\* the job stayed Pending: every snapshot fetched was Pending
StayedPending == \A i \in 1..Len(wait.fetched) : wait.fetched[i] = "P"

\* the call of the scenario: pollingInterval 100 ms, timeout 250 ms, a
\* target other than Pending
Scenario ==
    /\ wait.pc # "idle"
    /\ wait.pollingInterval = 100
    /\ wait.timeout = 250
    /\ wait.targetStatus # "P"

\* whatever the results, with pollingInterval > 0 at most
\* ceil(timeout / pollingInterval) fetches are begun, and a fetch after k
\* others is begun no sooner than k polling intervals after startTime, each
\* of the k followed by a sleep
FetchCountInv ==
    wait.pc # "idle" /\ wait.pollingInterval > 0 =>
        /\ FetchesBegun <= Ceil(wait.timeout, wait.pollingInterval)
        /\ wait.pc = "fetching" =>
               /\ now - wait.startTime >= Len(wait.fetched) * wait.pollingInterval
               /\ wait.sleeps = Len(wait.fetched)

\* a fetch that is not the first is begun when a sleep ends, no sooner
\* than pollingInterval after the fetch before it resolved
FetchSeparationStep ==
    wait'.pc = "fetching" /\ wait' # wait /\ wait.fetched # <<>> =>
        /\ wait.pc = "sleeping"
        /\ now' - now >= wait.pollingInterval

\* while the job stays Pending the call of the scenario ends only by the
\* timeout error or by the error of a failed request
ScenarioEndsByTimeout ==
    Scenario /\ StayedPending /\ wait.pc \in {"returned", "thrown"} =>
        /\ wait.pc = "thrown"
        /\ IsWaitTimeoutError(wait.error) \/ IsRequestError(wait.error)

ScenarioTimedOut ==
    /\ Scenario /\ StayedPending
    /\ wait.pc = "thrown" /\ IsWaitTimeoutError(wait.error)

\* C30: the number of fetches of a waitUntilState call is bounded by the
\* timeout: with pollingInterval > 0 at most ceil(timeout / pollingInterval)
\* fetches whatever the results, consecutive fetches at least
\* pollingInterval apart, and with pollingInterval = 100, timeout = 250 and
\* a job that stays Pending the call performs 2 or 3 fetches and then fails
\* with the timeout error.
C30_FetchCount ==
    /\ [](/\ FetchCountInv
          /\ ScenarioEndsByTimeout
          /\ ScenarioTimedOut => Len(wait.fetched) \in {2, 3})
    /\ [][FetchSeparationStep]_vars

\* C30, amended: as above, but in the scenario the call performs at least 1
\* and at most 3 fetches before the timeout error (a fetch or a timer that
\* takes long leaves room for fewer).
C30_FetchCountAtLeastOne ==
    /\ [](/\ FetchCountInv
          /\ ScenarioEndsByTimeout
          /\ ScenarioTimedOut => Len(wait.fetched) \in {1, 2, 3})
    /\ [][FetchSeparationStep]_vars

C30_Witness ==
    /\ ScenarioTimedOut
    /\ wait.fetched = <<"P", "P", "P">>
    /\ wait.sleeps = 3
    /\ now - wait.startTime = 300

(***************************************************************************)
(* Termination of the polling operations.                                  *)
(***************************************************************************)
WaitSettled == wait.pc \in {"returned", "thrown"}

RunSettled == run.pc \in {"returned", "thrown"}

\* C31: every call of waitUntilState and of runWorkflowAndWait with
\* pollingInterval > 0 eventually returns or fails when every request and
\* every sleep completes: no call polls forever, even if the job never
\* reaches the target or a terminal status.
C31_PollingTerminates ==
    /\ (wait.pc = "call" /\ wait.pollingInterval > 0) ~> WaitSettled
    /\ (run.pc = "call" /\ run.pollingInterval > 0) ~> RunSettled

C31_Witness ==
    /\ wait.pc = "thrown"
    /\ IsWaitTimeoutError(wait.error)
    /\ wait.pollingInterval > 0
    /\ wait.fetched = <<"P", "R">>
    /\ wait.sleeps = 2

(***************************************************************************)
(* The start of the timeout clock.                                         *)
(***************************************************************************)
\* the fetches a call has issued: those resolved, the one in flight and
\* the one that was rejected
FetchRejected(e) == e = RequestErrorMessage("getting workflow results")

WaitFetchesIssued ==
    Len(wait.fetched)
        + (IF wait.pc = "fetching" \/ FetchRejected(wait.error) THEN 1 ELSE 0)

RunFetchesIssued ==
    Len(run.fetched)
        + (IF run.pc = "fetching" \/ FetchRejected(run.error) THEN 1 ELSE 0)

\* the call is past the code before the loop: the minWaitTime sleep, the
\* submit request (which resolved)
WaitInLoop == wait.pc \in {"fetching", "sleeping", "returned", "thrown"}

RunInLoop ==
    /\ run.pc \in {"fetching", "sleeping", "returned", "thrown"}
    /\ run.error # RequestErrorMessage("running workflow")

\* C32: the timeout clock of waitUntilState starts after the minWaitTime
\* sleep and that of runWorkflowAndWait after the submit has completed:
\* startTime is the clock at that moment, so a call begins at least one
\* fetch if and only if timeout > 0, however long the minWaitTime sleep or
\* the submit took, and with timeout = 0 it fails with the timeout error
\* without any fetch (runWorkflowAndWait having submitted the job).
C32_TimeoutClockStart ==
    /\ WaitInLoop =>
           /\ wait.startTime >= wait.minWaitTime
           /\ WaitFetchesIssued >= 1 <=> wait.timeout > 0
           /\ wait.fetched = <<>> /\ wait.pc = "fetching" => now = wait.startTime
           /\ wait.timeout = 0 =>
                  /\ wait.pc = "thrown"
                  /\ IsWaitTimeoutError(wait.error)
                  /\ wait.fetched = <<>>
                  /\ now = wait.startTime
    /\ RunInLoop =>
           /\ run.submits = 1
           /\ RunFetchesIssued >= 1 <=> run.timeout > 0
           /\ run.fetched = <<>> /\ run.pc = "fetching" => now = run.startTime
           /\ run.timeout = 0 =>
                  /\ run.pc = "thrown"
                  /\ IsRunTimeoutError(run.error)
                  /\ run.fetched = <<>>
                  /\ run.progress = <<>>
                  /\ now = run.startTime

C32_Witness ==
    /\ wait.minWaitTime = Ms(1)
    /\ wait.timeout = Ms(1)
    /\ wait.startTime >= Ms(1)
    /\ wait.pc = "returned"
    /\ Len(wait.fetched) = 1

(***************************************************************************)
(* The key-case conversion as a mapping of keys.                           *)
(***************************************************************************)
\* the members of an object and the items of an array, at every depth, are
\* as many in out as in wire, and the keys of one object stay distinct
RECURSIVE KeysKeptApart(_, _)
KeysKeptApart(wire, out) ==
    /\ Len(out.members) = Len(wire.members)
    /\ \A i, j \in DOMAIN wire.members :
           wire.members[i].key # wire.members[j].key
               => out.members[i].key # out.members[j].key
    /\ \A i \in DOMAIN wire.members :
           KeysKeptApart(wire.members[i].value, out.members[i].value)

\* C33: the field-name conversion at the wire boundary is a pure, total and
\* bidirectional mapping: every document is converted, to one result, and
\* distinct wire keys of one object map to distinct in-memory keys, so that
\* no field is merged or lost and the conversion can be inverted.
C33_KeyConversionBidirectional ==
    call.fn = "getWorkflowResults" /\ call.pc = "returned" =>
        /\ call.ret = TransformKeysToCamelCase(call.arg)
        /\ call.ret.kind = "object"
        /\ KeysKeptApart(call.arg, call.ret)

(***************************************************************************)
(* Failure of the session creation.                                        *)
(***************************************************************************)
CreateFailed(b) == blocks[b].result = [kind |-> "thrown", value |-> "createError"]

\* a block whose creation failed has thrown that error, never ran its
\* callback, has no session and no close request
CreateFailureInv ==
    \A b \in BlockIds :
        CreateFailed(b) =>
            /\ blocks[b].pc = "thrown"
            /\ blocks[b].callback = NoOutcome
            /\ blocks[b].uuid = Null
            /\ ~blocks[b].closeFailed
            /\ submitted.block # b
            /\ \A k \in BlockIds : blocks[k].parent # b
            /\ \A q \in BagToSet(closeRequests) : q.uuid # Null

\* the step in which the creation request of block b fails
CreateFailureStep ==
    \A b \in BlockIds :
        blocks[b].pc = "creating" /\ blocks'[b].pc = "thrown" =>
            /\ CreateFailed(b)'
            /\ activeSessionId' = activeSessionId
            /\ closeRequests' = closeRequests
            /\ created' = created

\* C34: if the session-creation request of withBrowserSession fails, the
\* call fails with that error, the callback is never invoked, no close
\* request is issued, and the active-session slot keeps the value it had
\* before the call.
C34_CreateFailure == []CreateFailureInv /\ [][CreateFailureStep]_vars

C34_Witness ==
    /\ CreateFailed(2)
    /\ blocks[2].client = blocks[1].client
    /\ blocks[1].pc = "callback"
    /\ blocks[1].uuid # Null
    /\ activeSessionId[blocks[2].client] = blocks[1].uuid
    /\ closeRequests = EmptyBag

(***************************************************************************)
(* What changes the active-session slot.                                   *)
(***************************************************************************)
\* withBrowserSession enters its callback or leaves it
BlockEntryOrExit ==
    \E b \in BlockIds :
        \/ blocks[b].pc = "creating" /\ blocks'[b].pc = "callback"
        \/ blocks[b].pc = "callback" /\ blocks'[b].pc = "closing"

\* a step of another operation: a submission, a step of a polling call,
\* of cancelRun, of a session request made by hand, or the outcome of the
\* close request of a block
OtherOperationStep ==
    \/ submitted' # submitted
    \/ wait' # wait
    \/ run' # run
    \/ cancel' # cancel
    \/ call' # call
    \/ \E b \in BlockIds : blocks[b].pc = "closing" /\ blocks'[b].pc # "closing"

SlotFrameStep ==
    /\ activeSessionId' # activeSessionId => BlockEntryOrExit
    /\ OtherOperationStep => activeSessionId' = activeSessionId

\* C35: the active-session slot is changed only by withBrowserSession on
\* entry and on exit: job submissions, the polling calls and their fetches,
\* cancelRun, createBrowserSession, listBrowserSessions, getBrowserSession
\* and closeBrowserSession leave it as it is whether they succeed or fail.
C35_SlotChangedOnlyByBlocks == [][SlotFrameStep]_vars

C35_Witness ==
    /\ call.fn = "closeBrowserSession"
    /\ call.pc = "returned"
    /\ blocks[1].pc = "callback"
    /\ call.arg = blocks[1].uuid
    /\ activeSessionId[blocks[1].client] = blocks[1].uuid

(***************************************************************************)
(* The order of the restore and the close request.                         *)
(***************************************************************************)
\* the close request of block b is in flight
Closing(b) == blocks[b].pc = "closing"

\* while the close request of a block is in flight the slot of its client
\* holds the value saved on entry, not the session being closed
RestoredWhileClosing ==
    \A b \in BlockIds :
        Closing(b) =>
            /\ activeSessionId[blocks[b].client] = blocks[b].previousSessionId
            /\ activeSessionId[blocks[b].client] # blocks[b].uuid
            /\ CopiesIn(CloseRequest(blocks[b].uuid, TRUE), closeRequests) = 1

\* the step that sends the close request of b has restored the slot, and
\* the step in which that request resolves or rejects leaves the slot alone
RestoreThenCloseStep ==
    \A b \in BlockIds :
        /\ ~Closing(b) /\ Closing(b)' =>
               /\ activeSessionId'[blocks[b].client] = blocks[b].previousSessionId
               /\ closeRequests' =
                      closeRequests (+) SetToBag({CloseRequest(blocks[b].uuid, TRUE)})
        /\ Closing(b) /\ ~Closing(b)' =>
               /\ activeSessionId' = activeSessionId
               /\ closeRequests' = closeRequests

CloseRequested(sessionUuid) ==
    \E q \in BagToSet(closeRequests) : q.uuid = sessionUuid

\* a non-null slot holds the session of a block of that client that is in
\* its callback, with no close request issued for it
SlotHoldsLiveSession ==
    \A c \in Clients :
        activeSessionId[c] # Null =>
            /\ ~CloseRequested(activeSessionId[c])
            /\ \E b \in BlockIds :
                   /\ blocks[b].client = c
                   /\ blocks[b].uuid = activeSessionId[c]
                   /\ blocks[b].pc = "callback"

\* a submission that takes its session id from the slot takes a session no
\* close request was issued for
InjectsLiveSessionStep ==
    /\ submitted' # submitted
    /\ submitted'.browserSessionId = Null
    /\ submitted'.browser_session_id # Null
    => ~CloseRequested(submitted'.browser_session_id)

\* C37: with the withBrowserSession blocks of a client serial or properly
\* nested, a non-null slot always holds the id of a session created by a
\* block still in progress for which no close request has been issued, and
\* so no submission is auto-injected with the id of a session that
\* withBrowserSession has already asked to close.
C37_SlotHoldsLiveSession ==
    []SlotHoldsLiveSession /\ [][InjectsLiveSessionStep]_vars

C37_Witness ==
    /\ blocks[2].pc \in {"returned", "thrown"}
    /\ blocks[2].parent = 1
    /\ blocks[2].client = blocks[1].client
    /\ CloseRequested(blocks[2].uuid)
    /\ blocks[2].uuid # Null
    /\ blocks[1].pc = "callback"
    /\ activeSessionId[blocks[1].client] = blocks[1].uuid
    /\ submitted.block = 1
    /\ submitted.browserSessionId = Null
    /\ submitted.browser_session_id = blocks[1].uuid

(***************************************************************************)
(* The submit request of runWorkflowAndWait.                               *)
(***************************************************************************)
SubmitFailed == run.error = RequestErrorMessage("running workflow")

\* C38: runWorkflowAndWait issues exactly one submit request per call and
\* issues it before any fetch; every fetch of the call is for the run id
\* returned by that submit; if the submit fails the error propagates, no
\* fetch is performed and onProgress is never invoked.
C38_SubmitOnceThenFetch ==
    /\ run.pc = "call" => run.submits = 0
    /\ run.pc \notin {"idle", "call"} => run.submits = 1
    /\ run.pc \in {"call", "submitting"} =>
           /\ run.requested = {}
           /\ run.fetched = <<>>
           /\ run.progress = <<>>
           /\ run.runId = "none"
    /\ run.requested # {} \/ run.fetched # <<>> =>
           /\ run.runId \in RunIds
           /\ run.requested = {run.runId}
    /\ run.pc \in {"fetching", "sleeping", "returned"} => run.runId \in RunIds
    /\ SubmitFailed =>
           /\ run.pc = "thrown"
           /\ run.submits = 1
           /\ run.requested = {}
           /\ run.fetched = <<>>
           /\ run.progress = <<>>
           /\ run.retKind = "none"

C38_Witness ==
    /\ run.pc = "returned"
    /\ run.submits = 1
    /\ run.runId = "r2"
    /\ run.requested = {"r2"}
    /\ Len(run.fetched) = 2
    /\ run.onProgressGiven
    /\ Len(run.progress) = 2

(***************************************************************************)
(* The requests a polling call issues.                                     *)
(***************************************************************************)
\* a step of waitUntilState or of runWorkflowAndWait
PollingStep == wait' # wait \/ run' # run

\* a polling call ends by a timeout, a terminal mismatch or a request error
PollingFails ==
    \/ wait.pc # "thrown" /\ wait'.pc = "thrown"
    \/ run.pc # "thrown" /\ run'.pc = "thrown"

CancelRequestStep == cancel.pc = "idle" /\ cancel'.pc # "idle"

NoCancelByPollingStep ==
    /\ PollingStep => cancel' = cancel /\ closeRequests' = closeRequests
    /\ PollingFails => cancel' = cancel /\ closeRequests' = closeRequests
    /\ CancelRequestStep =>
           /\ CancelRunCall
           /\ wait' = wait
           /\ run' = run

\* C39: the polling operations never issue a cancel request: when
\* waitUntilState or runWorkflowAndWait ends by timeout, terminal mismatch
\* or request error, no cancel and no session close is sent, and a cancel
\* request is sent only by an explicit cancelRun call.
C39_PollingNeverCancels == [][NoCancelByPollingStep]_vars

C39_Witness ==
    /\ wait.pc = "thrown"
    /\ IsWaitTimeoutError(wait.error)
    /\ wait.fetched # <<>>
    /\ cancel = CancelIdle
    /\ blocks[1].pc = "callback"
    /\ closeRequests = EmptyBag

====
